---- MODULE Spec2Model ----
(***************************************************************************)
(* Model of the tau-bench evaluation oracle: the canonical encoder and     *)
(* state hasher (tau_bench/validation.py, to_hashable / consistent_hash),  *)
(* the dual-channel TaskValidator (validate_syntactic, validate_semantic,  *)
(* validate_task) and the healthcare appointment tools it replays.         *)
(*                                                                         *)
(* Python values are tagged records:                                       *)
(*   [t |-> "str",  s |-> "abc"]          a str                            *)
(*   [t |-> "int",  n |-> 3]              an int                           *)
(*   [t |-> "dict", items |-> <<[k |-> key, v |-> value], ...>>]           *)
(*                                        a dict in insertion order        *)
(*   [t |-> "list", items |-> <<...>>]    a list                           *)
(*   [t |-> "set",  items |-> <<...>>]    a set in its iteration order     *)
(*   [t |-> "tuple", items |-> <<...>>]   a tuple (canonical forms only)   *)
(* A raised exception is [t |-> "raise", exc |-> "TypeError"].             *)
(* Rewards 1.0 and 0.0 are written 1 and 0.                                *)
(***************************************************************************)
EXTENDS Integers, Sequences, FiniteSets

\* ------------------------------------------------------------------------
\* Python values
\* ------------------------------------------------------------------------
PStr(x) == [t |-> "str", s |-> x]
PInt(x) == [t |-> "int", n |-> x]
PDict(its) == [t |-> "dict", items |-> its]
PList(its) == [t |-> "list", items |-> its]
PSet(its) == [t |-> "set", items |-> its]
PTuple(its) == [t |-> "tuple", items |-> its]
\* An instance of a class that defines neither __repr__ nor __lt__, living
\* at a memory address.
PObject(cls, addr) == [t |-> "object", cls |-> cls, addr |-> addr]
KV(key, val) == [k |-> key, v |-> val]
Raise(e) == [t |-> "raise", exc |-> e]
IsRaise(x) == x.t = "raise"

Range(seq) == {seq[i] : i \in DOMAIN seq}

\* The strings that occur as dict keys or set elements, listed in Python's
\* str ordering (code-point lexicographic).
StrOrder ==
    <<"APT001", "APT002", "APT003", "APT004", "APT005", "APT006", "APT007",
      "APT008", "APT009", "PAT001", "PAT002", "TEST001",
      "a", "address", "appointments", "b", "c", "date", "dob", "doctor",
      "email", "name", "patient_id", "patients", "phone", "results",
      "status", "test_results", "test_type", "time", "type", "x", "y">>

StrRankOf ==
    [x \in Range(StrOrder) |-> CHOOSE i \in DOMAIN StrOrder : StrOrder[i] = x]
StrRank(x) == StrRankOf[x]

\* a < b for two scalars of the same type (str < str, int < int).
PyLess(a, b) ==
    IF a.t = "int" THEN a.n < b.n ELSE StrRank(a.s) < StrRank(b.s)

\* Comparing a str with an int, or two plain objects, raises TypeError; any
\* sort of a sequence holding such a pair performs such a comparison.
Comparable(keys) ==
    \A i, j \in DOMAIN keys :
        i # j => keys[i].t = keys[j].t /\ keys[i].t # "object"

\* Sorting works on pairs [key |-> the value compared, val |-> the element].
SortPair(key, val) == [key |-> key, val |-> val]

RECURSIVE InsertSorted(_, _)
InsertSorted(x, seq) ==
    IF seq = <<>> THEN <<x>>
    ELSE IF PyLess(x.key, Head(seq).key) THEN <<x>> \o seq
    ELSE <<Head(seq)>> \o InsertSorted(x, Tail(seq))

RECURSIVE InsertionSort(_)
InsertionSort(seq) ==
    IF seq = <<>> THEN <<>>
    ELSE InsertSorted(Head(seq), InsertionSort(Tail(seq)))

\* A plausible slip: the items are taken in iteration order, unsorted.
sorted_unsorted(pairs) == [i \in DOMAIN pairs |-> pairs[i].val]

\* sorted(iterable) on mutually comparable elements: ascending by key.
Vals(pairs) == [i \in DOMAIN pairs |-> pairs[i].val]
sorted(pairs) == Vals(InsertionSort(pairs))

Keys(items) == [i \in DOMAIN items |-> items[i].k]

\* The first exception among the elements of a sequence of results, if any.
AnyRaise(seq) == \E i \in DOMAIN seq : IsRaise(seq[i])
FirstRaise(seq) ==
    seq[CHOOSE i \in DOMAIN seq :
            IsRaise(seq[i]) /\ \A j \in 1..(i - 1) : ~IsRaise(seq[j])]

\* to_hashable(item): dict -> tuple of (key, to_hashable(value)) in sorted
\* key order; list -> tuple in order; set -> sorted tuple; else the item.
\* sorted() raises TypeError before any value of the dict is converted;
\* for a set the elements are converted first and then sorted.
RECURSIVE to_hashable(_)

\* The elements converted, in order; the first exception wins.
TupleOf(vals) == IF AnyRaise(vals) THEN FirstRaise(vals) ELSE PTuple(vals)

\* The (key, converted value) pairs of a dict whose items are sorted.
PairsOf(srt, vals) ==
    IF AnyRaise(vals) THEN FirstRaise(vals)
    ELSE PTuple([i \in DOMAIN srt |-> PTuple(<<srt[i].k, vals[i]>>)])
\* A plausible slip: only the keys of a dict reach the canonical form.
DictTuple_keys_only(srt) == PTuple([i \in DOMAIN srt |-> srt[i].k])

DictTuple(srt) == PairsOf(srt, [i \in DOMAIN srt |-> to_hashable(srt[i].v)])

\* The converted elements of a set, sorted.
SetTuple(vals) ==
    IF AnyRaise(vals) THEN FirstRaise(vals)
    ELSE IF ~Comparable(vals) THEN Raise("TypeError")
    ELSE PTuple(sorted([i \in DOMAIN vals |-> SortPair(vals[i], vals[i])]))

to_hashable(item) ==
    IF item.t = "dict" THEN
        IF ~Comparable(Keys(item.items)) THEN Raise("TypeError")
        ELSE DictTuple(sorted([i \in DOMAIN item.items |->
                                  SortPair(item.items[i].k, item.items[i])]))
    ELSE IF item.t = "list" THEN
        TupleOf([i \in DOMAIN item.items |-> to_hashable(item.items[i])])
    ELSE IF item.t = "set" THEN
        SetTuple([i \in DOMAIN item.items |-> to_hashable(item.items[i])])
    ELSE item

\* ------------------------------------------------------------------------
\* str(value) and the digest
\* ------------------------------------------------------------------------
DigitChar == <<"0", "1", "2", "3", "4", "5", "6", "7", "8", "9">>

RECURSIVE IntRepr(_)
IntRepr(n) ==
    IF n < 0 THEN <<"-">> \o IntRepr(-n)
    ELSE IF n < 10 THEN <<DigitChar[n + 1]>>
    ELSE IntRepr(n \div 10) \o <<DigitChar[(n % 10) + 1]>>

\* repr(value) as a sequence of tokens: a str is quoted, an int is its
\* decimal digits, a plain object is "<Class object at 0x...>", a tuple is
\* "(" e1 ", " e2 ... ")" with the trailing comma of a one-element tuple.
\* A list, set or dict that to_hashable left inside a tuple is written in
\* its iteration order.
RECURSIVE PyRepr(_)
RECURSIVE JoinRepr(_)
JoinRepr(items) ==
    IF items = <<>> THEN <<>>
    ELSE IF Len(items) = 1 THEN PyRepr(items[1])
    ELSE PyRepr(items[1]) \o <<", ">> \o JoinRepr(Tail(items))

RECURSIVE JoinItems(_)
JoinItems(items) ==
    IF items = <<>> THEN <<>>
    ELSE PyRepr(items[1].k) \o <<": ">> \o PyRepr(items[1].v)
         \o (IF Len(items) = 1 THEN <<>> ELSE <<", ">> \o JoinItems(Tail(items)))

PyRepr(h) ==
    IF h.t = "str" THEN <<"'", h.s, "'">>
    ELSE IF h.t = "int" THEN IntRepr(h.n)
    ELSE IF h.t = "object" THEN <<"<", h.cls, " object at ", h.addr, ">">>
    ELSE IF h.t = "list" THEN <<"[">> \o JoinRepr(h.items) \o <<"]">>
    ELSE IF h.t = "dict" THEN <<"{">> \o JoinItems(h.items) \o <<"}">>
    ELSE IF h.t = "set"
    THEN IF h.items = <<>> THEN <<"set()">>
         ELSE <<"{">> \o JoinRepr(h.items) \o <<"}">>
    ELSE IF Len(h.items) = 1 THEN <<"(">> \o PyRepr(h.items[1]) \o <<",", ")">>
    ELSE <<"(">> \o JoinRepr(h.items) \o <<")">>

\* str(value): a str is itself, anything else is its repr.
PyStrOf(h) == IF h.t = "str" THEN <<h.s>> ELSE PyRepr(h)

\* SHA-256 is taken to be collision free: a digest is identified with the
\* text it was computed from.
sha256_hexdigest(text) == [t |-> "digest", text |-> text]

\* consistent_hash(value) = sha256(str(value).encode("utf-8")).hexdigest()
consistent_hash(value) == sha256_hexdigest(PyStrOf(value))

\* get_data_hash(data) = consistent_hash(to_hashable(data)); an exception
\* of to_hashable propagates.
HashOrRaise(h) == IF IsRaise(h) THEN h ELSE consistent_hash(h)
get_data_hash(data) == HashOrRaise(to_hashable(data))

\* ------------------------------------------------------------------------
\* dict operations
\* ------------------------------------------------------------------------
DictHas(d, key) == \E i \in DOMAIN d.items : d.items[i].k = key
DictIdx(d, key) == CHOOSE i \in DOMAIN d.items : d.items[i].k = key
DictGet(d, key) == d.items[DictIdx(d, key)].v

\* d[key] = val: an existing key keeps its position, a new key goes last.
DictSet(d, key, val) ==
    IF DictHas(d, key)
    THEN PDict([d.items EXCEPT ![DictIdx(d, key)].v = val])
    ELSE PDict(Append(d.items, KV(key, val)))

\* A dict of str -> str built from a sequence of <<key, value>> pairs.
StrDict(pairs) ==
    PDict([i \in DOMAIN pairs |-> KV(PStr(pairs[i][1]), PStr(pairs[i][2]))])

\* ------------------------------------------------------------------------
\* The healthcare domain: data loader and tools
\* ------------------------------------------------------------------------
\* load_data(): a new dict built from literals on every call.
load_data ==
    PDict(<<
        KV(PStr("patients"), PDict(<<
            KV(PStr("PAT001"), StrDict(<<
                <<"name", "John Smith">>,
                <<"dob", "1985-03-15">>,
                <<"phone", "555-0123">>,
                <<"email", "john.smith@email.com">>,
                <<"address", "123 Main St, Anytown, ST 12345">> >>)),
            KV(PStr("PAT002"), StrDict(<<
                <<"name", "Sarah Johnson">>,
                <<"dob", "1992-07-22">>,
                <<"phone", "555-0456">>,
                <<"email", "sarah.j@email.com">>,
                <<"address", "456 Oak Ave, Anytown, ST 12345">> >>)) >>)),
        KV(PStr("appointments"), PDict(<<
            KV(PStr("APT001"), StrDict(<<
                <<"patient_id", "PAT001">>,
                <<"doctor", "Dr. Williams">>,
                <<"date", "2024-02-15">>,
                <<"time", "10:00 AM">>,
                <<"type", "General Checkup">>,
                <<"status", "scheduled">> >>)),
            KV(PStr("APT002"), StrDict(<<
                <<"patient_id", "PAT002">>,
                <<"doctor", "Dr. Brown">>,
                <<"date", "2024-02-16">>,
                <<"time", "2:00 PM">>,
                <<"type", "Follow-up">>,
                <<"status", "scheduled">> >>)) >>)),
        KV(PStr("test_results"), PDict(<<
            KV(PStr("TEST001"), StrDict(<<
                <<"patient_id", "PAT001">>,
                <<"test_type", "Blood Work">>,
                <<"date", "2024-01-30">>,
                <<"results", "Normal">>,
                <<"doctor", "Dr. Williams">> >>)) >>)) >>)

\* f"APT{n:03d}"
AptId(n) ==
    IF n < 10 THEN <<"APT001", "APT002", "APT003", "APT004", "APT005",
                     "APT006", "APT007", "APT008", "APT009">>[n]
    ELSE "APT0??"

\* The outcome of a tool call: the snapshot afterwards and whether the call
\* raised.  Binding **kwargs to the signature raises TypeError, before the
\* body runs, when a required parameter is missing or a name is unknown.
Outcome(data, raised) == [data |-> data, raised |-> raised]
Binds(kwargs, required, optional) ==
    /\ required \subseteq DOMAIN kwargs
    /\ DOMAIN kwargs \subseteq required \cup optional

\* data.get("appointments", {}): the dict stored in data, or a new empty
\* dict that is not stored anywhere.
GetAppointments(data) ==
    IF DictHas(data, PStr("appointments"))
    THEN DictGet(data, PStr("appointments"))
    ELSE PDict(<<>>)
PutAppointments(data, appointments) ==
    IF DictHas(data, PStr("appointments"))
    THEN DictSet(data, PStr("appointments"), appointments)
    ELSE data

\* A plausible slip: the new ID counts the appointments still scheduled.
ScheduleAppointment_count_scheduled(data, kwargs) ==
    IF ~Binds(kwargs, {"patient_id", "doctor", "date", "time", "type"}, {})
    THEN Outcome(data, TRUE)
    ELSE LET appointments == GetAppointments(data)
             live == {i \in DOMAIN appointments.items :
                         DictGet(appointments.items[i].v, PStr("status"))
                             = PStr("scheduled")}
             appt_id == AptId(Cardinality(live) + 1)
             appt == StrDict(<<
                 <<"patient_id", kwargs.patient_id>>,
                 <<"doctor", kwargs.doctor>>,
                 <<"date", kwargs.date>>,
                 <<"time", kwargs.time>>,
                 <<"type", kwargs.type>>,
                 <<"status", "scheduled">> >>)
         IN Outcome(PutAppointments(data,
                        DictSet(appointments, PStr(appt_id), appt)), FALSE)

\* ScheduleAppointment.invoke
ScheduleAppointment(data, kwargs) ==
    IF ~Binds(kwargs, {"patient_id", "doctor", "date", "time", "type"}, {})
    THEN Outcome(data, TRUE)
    ELSE LET appointments == GetAppointments(data)
             appt_id == AptId(Len(appointments.items) + 1)
             appt == StrDict(<<
                 <<"patient_id", kwargs.patient_id>>,
                 <<"doctor", kwargs.doctor>>,
                 <<"date", kwargs.date>>,
                 <<"time", kwargs.time>>,
                 <<"type", kwargs.type>>,
                 <<"status", "scheduled">> >>)
         IN Outcome(PutAppointments(data,
                        DictSet(appointments, PStr(appt_id), appt)), FALSE)

\* CancelAppointment.invoke
CancelAppointment(data, kwargs) ==
    IF ~Binds(kwargs, {"appointment_id"}, {})
    THEN Outcome(data, TRUE)
    ELSE LET appointments == GetAppointments(data)
             id == PStr(kwargs.appointment_id)
         IN IF ~DictHas(appointments, id) THEN Outcome(data, FALSE)
            ELSE Outcome(PutAppointments(data,
                     DictSet(appointments, id,
                         DictSet(DictGet(appointments, id),
                                 PStr("status"), PStr("cancelled")))), FALSE)

\* The tools that only read the snapshot.
GetAppointmentDetails(data, kwargs) ==
    Outcome(data, ~Binds(kwargs, {"patient_id"}, {"appointment_id"}))
GetPatientInfo(data, kwargs) ==
    Outcome(data, ~Binds(kwargs, {"patient_id"}, {}))
GetTestResults(data, kwargs) ==
    Outcome(data, ~Binds(kwargs, {"patient_id"}, {"test_id"}))
TransferToMedicalStaff(data, kwargs) ==
    Outcome(data, ~Binds(kwargs, {"reason"}, {"urgency"}))

\* tools_map: invocation name -> tool (ALL_TOOLS indexed by declared name).
ToolNames ==
    {"get_patient_info", "schedule_appointment", "get_appointment_details",
     "cancel_appointment", "get_test_results", "transfer_to_medical_staff"}

tools_map_invoke(name, data, kwargs) ==
    CASE name = "schedule_appointment" -> ScheduleAppointment(data, kwargs)
      [] name = "cancel_appointment" -> CancelAppointment(data, kwargs)
      [] name = "get_appointment_details" -> GetAppointmentDetails(data, kwargs)
      [] name = "get_patient_info" -> GetPatientInfo(data, kwargs)
      [] name = "get_test_results" -> GetTestResults(data, kwargs)
      [] name = "transfer_to_medical_staff" -> TransferToMedicalStaff(data, kwargs)

terminate_tools == {"transfer_to_medical_staff"}

RESPOND_ACTION_NAME == "respond"

\* A plausible slip: the terminal-tool test is inverted.
execute_action_terminal_only(action, data) ==
    IF action.name \in ToolNames /\ action.name \in terminate_tools
    THEN tools_map_invoke(action.name, data, action.kwargs).data
    ELSE data

\* execute_action(action, data): invoke the tool unless the name is unknown
\* or terminal; an exception of the tool is swallowed.
execute_action(action, data) ==
    IF action.name \in ToolNames /\ action.name \notin terminate_tools
    THEN tools_map_invoke(action.name, data, action.kwargs).data
    ELSE data

\* ------------------------------------------------------------------------
\* Text of respond actions and expected outputs: sequences of characters
\* ------------------------------------------------------------------------
\* "SUCCESS"
txt_SUCCESS ==
    <<"S", "U", "C", "C", "E", "S", "S">>

\* "succes"
txt_succes ==
    <<"s", "u", "c", "c", "e", "s">>

\* "task completed, success!"
txt_task_completed ==
    <<"t", "a", "s", "k", " ", "c", "o", "m", "p", "l", "e", "t", "e", "d",
      ",", " ", "s", "u", "c", "c", "e", "s", "s", "!">>

\* "Task completed with result: SUCCESS"
txt_example_respond ==
    <<"T", "a", "s", "k", " ", "c", "o", "m", "p", "l", "e", "t", "e", "d",
      " ", "w", "i", "t", "h", " ", "r", "e", "s", "u", "l", "t", ":", " ",
      "S", "U", "C", "C", "E", "S", "S">>

\* "Normal"
txt_Normal ==
    <<"N", "o", "r", "m", "a", "l">>

\* "APT003"
txt_APT003 ==
    <<"A", "P", "T", "0", "0", "3">>

\* "Blood work: Normal. New appointment APT003 scheduled."
txt_blood_work ==
    <<"B", "l", "o", "o", "d", " ", "w", "o", "r", "k", ":", " ", "N", "o",
      "r", "m", "a", "l", ".", " ", "N", "e", "w", " ", "a", "p", "p", "o",
      "i", "n", "t", "m", "e", "n", "t", " ", "A", "P", "T", "0", "0", "3",
      " ", "s", "c", "h", "e", "d", "u", "l", "e", "d", ".">>

\* "1000"
txt_1000 ==
    <<"1", "0", "0", "0">>

\* "1,000"
txt_1c000 ==
    <<"1", ",", "0", "0", "0">>

\* "Total due: 1,000"
txt_total ==
    <<"T", "o", "t", "a", "l", " ", "d", "u", "e", ":", " ", "1", ",", "0",
      "0", "0">>

\* "cancelled"
txt_cancelled ==
    <<"c", "a", "n", "c", "e", "l", "l", "e", "d">>

\* "No test results"
txt_no_results ==
    <<"N", "o", " ", "t", "e", "s", "t", " ", "r", "e", "s", "u", "l", "t",
      "s">>

UpperChars ==
    <<"A", "B", "C", "D", "E", "F", "G", "H", "I", "J", "K", "L", "M",
      "N", "O", "P", "Q", "R", "S", "T", "U", "V", "W", "X", "Y", "Z">>
LowerChars ==
    <<"a", "b", "c", "d", "e", "f", "g", "h", "i", "j", "k", "l", "m",
      "n", "o", "p", "q", "r", "s", "t", "u", "v", "w", "x", "y", "z">>

LowerChar(c) ==
    IF \E i \in DOMAIN UpperChars : UpperChars[i] = c
    THEN LowerChars[CHOOSE i \in DOMAIN UpperChars : UpperChars[i] = c]
    ELSE c

\* A plausible slip: the content is compared without case folding.
lower_identity(text) == text

\* str.lower()
lower(text) == [i \in DOMAIN text |-> LowerChar(text[i])]

IsComma(c) == c = ","
NotComma(c) == c # ","

\* A plausible slip: the commas are left in the content.
strip_commas_kept(text) == text

\* str.replace(",", "")
strip_commas(text) == SelectSeq(text, NotComma)

\* needle in haystack
Contains(haystack, needle) ==
    \E i \in 1..(Len(haystack) - Len(needle) + 1) :
        SubSeq(haystack, i, i + Len(needle) - 1) = needle

\* A plausible slip: the commas are stripped from the expected output too.
OutputInContent_both_stripped(expected_output, content) ==
    Contains(strip_commas(lower(content)), strip_commas(lower(expected_output)))

\* expected_output.lower() in action.kwargs["content"].lower().replace(",", "")
OutputInContent(expected_output, content) ==
    Contains(strip_commas(lower(content)), lower(expected_output))

\* ------------------------------------------------------------------------
\* TaskValidator: the semantic channel
\* ------------------------------------------------------------------------
Action(name, kwargs) == [name |-> name, kwargs |-> kwargs]
Task(actions, outputs) == [actions |-> actions, outputs |-> outputs]

RewardOutputInfo(r_outputs, outputs) ==
    [t |-> "RewardOutputInfo", r_outputs |-> r_outputs, outputs |-> outputs]
RewardActionInfo(r_actions, gt_data_hash) ==
    [t |-> "RewardActionInfo", r_actions |-> r_actions,
     gt_data_hash |-> gt_data_hash]

\* The inner loop of validate_semantic for one expected output: the scan
\* stops at the first respond action that contains it; a respond action
\* without a "content" argument that is reached first raises KeyError.
RECURSIVE ScanActions(_, _)
ScanActions(expected_output, actions) ==
    IF actions = <<>> THEN "not found"
    ELSE LET action == Head(actions) IN
         IF action.name # RESPOND_ACTION_NAME
         THEN ScanActions(expected_output, Tail(actions))
         ELSE IF "content" \notin DOMAIN action.kwargs THEN "KeyError"
         ELSE IF OutputInContent(expected_output, action.kwargs.content)
         THEN "found"
         ELSE ScanActions(expected_output, Tail(actions))

\* A plausible slip: one expected output found is enough to pass.
validate_semantic_any(task, agent_actions) ==
    IF task.outputs = <<>> THEN RewardOutputInfo(1, [f \in {} |-> TRUE])
    ELSE LET scan == [i \in DOMAIN task.outputs |->
                        ScanActions(task.outputs[i], agent_actions)] IN
         IF \E i \in DOMAIN scan : scan[i] = "KeyError" THEN Raise("KeyError")
         ELSE RewardOutputInfo(
                  IF \E i \in DOMAIN scan : scan[i] = "found" THEN 1 ELSE 0,
                  [f \in Range(task.outputs) |->
                      ScanActions(f, agent_actions) = "found"])

\* validate_semantic(task, agent_actions)
validate_semantic(task, agent_actions) ==
    IF task.outputs = <<>> THEN RewardOutputInfo(1, [f \in {} |-> TRUE])
    ELSE LET scan == [i \in DOMAIN task.outputs |->
                        ScanActions(task.outputs[i], agent_actions)] IN
         IF \E i \in DOMAIN scan : scan[i] = "KeyError" THEN Raise("KeyError")
         ELSE RewardOutputInfo(
                  IF \A i \in DOMAIN scan : scan[i] = "found" THEN 1 ELSE 0,
                  [f \in Range(task.outputs) |->
                      ScanActions(f, agent_actions) = "found"])

IsNotRespond(action) == action.name # RESPOND_ACTION_NAME

\* A plausible slip: a task that declares outputs is rewarded on the semantic
\* channel alone.
combine_semantic_only(task, syntactic_info, semantic_info) ==
    IF task.outputs # <<>>
    THEN (IF semantic_info.r_outputs < 1 THEN 0 ELSE 1)
    ELSE (IF ~syntactic_info.r_actions THEN 0 ELSE 1)

\* A plausible slip: the syntactic channel never lowers the reward.
combine_outputs_only(task, syntactic_info, semantic_info) ==
    IF semantic_info.r_outputs < 1 THEN 0 ELSE 1

\* The reward of validate_task: 1.0, set to 0.0 when the syntactic channel
\* fails and set to 0.0 when the semantic channel fails.
combine(task, syntactic_info, semantic_info) ==
    IF ~syntactic_info.r_actions THEN 0
    ELSE IF semantic_info.r_outputs < 1 THEN 0
    ELSE 1

\* A plausible slip: the info is chosen by the channel that failed.
RewardResult_info_of_failure(task, syntactic_info, semantic_info) ==
    [kind |-> "return",
     reward |-> combine(task, syntactic_info, semantic_info),
     info |-> IF semantic_info.r_outputs < 1 THEN semantic_info ELSE syntactic_info,
     actions |-> SelectSeq(task.actions, IsNotRespond)]

\* The tail of validate_task once both channels have returned.
RewardResult(task, syntactic_info, semantic_info) ==
    [kind |-> "return",
     reward |-> combine(task, syntactic_info, semantic_info),
     info |-> IF task.outputs # <<>> THEN semantic_info ELSE syntactic_info,
     actions |-> SelectSeq(task.actions, IsNotRespond)]

Raised(e) == [kind |-> "raise", exc |-> e.exc]

\* ------------------------------------------------------------------------
\* Bounds and inputs
\* ------------------------------------------------------------------------
\* Number of validate_task calls in flight.
NCalls == 2
\* Longest agent trace.
MaxAgentActions == 2

Calls == 1..NCalls

act_schedule ==
    Action("schedule_appointment",
           [patient_id |-> "PAT001", doctor |-> "Dr. Williams",
            date |-> "2024-02-22", time |-> "10:00 AM", type |-> "Follow-up"])
act_cancel(id) == Action("cancel_appointment", [appointment_id |-> id])
act_get_patient_info == Action("get_patient_info", [patient_id |-> "PAT001"])
act_get_test_results(p) == Action("get_test_results", [patient_id |-> p])
\* tasks.py calls get_appointment_details without its required patient_id.
act_get_appointment_details ==
    Action("get_appointment_details", [appointment_id |-> "APT002"])
act_transfer ==
    Action("transfer_to_medical_staff", [reason |-> "medication question"])
act_respond(text) == Action(RESPOND_ACTION_NAME, [content |-> text])
\* A respond action whose kwargs lack "content".
act_respond_no_content == Action(RESPOND_ACTION_NAME, [message |-> txt_SUCCESS])
\* A name that is not in tools_map.
act_unknown == Action("refund_payment", [appointment_id |-> "APT001"])

Tasks ==
    { \* examples/healthcare_domain/tasks.py, first and second task
      Task(<<act_get_patient_info, act_get_test_results("PAT001"), act_schedule>>,
           <<txt_Normal, txt_APT003>>),
      Task(<<act_get_appointment_details, act_cancel("APT002"),
             act_get_test_results("PAT002")>>,
           <<txt_cancelled, txt_no_results>>),
      \* no expected outputs: schedule then cancel, and a single cancellation
      Task(<<act_schedule, act_cancel("APT003")>>, <<>>),
      Task(<<act_cancel("APT001")>>, <<>>),
      \* a terminal tool, an unknown tool, a tool call and a respond action
      \* (the respond action and the output of example_validation.py)
      Task(<<act_transfer, act_unknown, act_cancel("APT001"),
             act_respond(txt_example_respond)>>,
           <<txt_SUCCESS, txt_1000>>) }

AgentActions ==
    { act_schedule, act_cancel("APT001"), act_cancel("APT003"),
      act_respond(txt_blood_work), act_respond(txt_task_completed),
      act_respond(txt_succes), act_respond(txt_total),
      act_respond_no_content }

\* ------------------------------------------------------------------------
\* State
\* ------------------------------------------------------------------------
VARIABLES
    task,               \* the Task under validation
    agent_actions,      \* the agent's action trace
    heap,               \* the snapshot objects, indexed by reference
    current_data,       \* reference of the environment's (agent's) snapshot
    pc,                 \* per call: "idle", "loaded", "replayed", "done"
    current_data_hash,  \* per call: local of validate_syntactic
    gt_data,            \* per call: reference of the ground-truth snapshot
    syntactic_info,     \* per call: local of validate_task
    semantic_info,      \* per call: local of validate_task
    result,             \* per call: what validate_task returned or raised
    hx0, hx, hout,      \* canonical encoder: input, reordered input, output
    domains,            \* DomainRegistry._domains
    domain_paths,       \* DomainRegistry._domain_paths
    op,                 \* the registry call made last, with what it returned
    rpc, rarg,          \* per registering thread: position, arguments
    domain_config,      \* GenericDomainEnv: the descriptor being resolved
    env_pc,             \* GenericDomainEnv.__init__: the loader to run next
    components,         \* what the loaders returned so far
    attempts,           \* the resolution attempts made, in order
    tools,              \* SemanticValidator.__init__: the tools argument
    tool_map,           \* SemanticValidator.tool_map
    idx,                \* replay loop: actions of task.actions gone through
    invoked,            \* replay loop: the tool invocations made, in order
    report,             \* task_validation.TaskValidator.validate_task: report
    skip_semantics,     \* its argument
    legacy_pc           \* its position: "idle", "semantic", "done"

valVars == <<task, agent_actions, heap, current_data, pc, current_data_hash,
             gt_data, syntactic_info, semantic_info, result>>
hashVars == <<hx0, hx, hout>>
regVars == <<domains, domain_paths, op, rpc, rarg>>
resVars == <<domain_config, env_pc, components, attempts>>
toolVars == <<tools, tool_map>>
loopVars == <<idx, invoked>>
legacyVars == <<report, skip_semantics, legacy_pc>>
idleVars == <<regVars, resVars, toolVars, loopVars, legacyVars>>
outsideReg == <<valVars, hashVars, resVars, toolVars, loopVars, legacyVars>>
outsideRes == <<valVars, hashVars, regVars, toolVars, loopVars, legacyVars>>
outsideTools == <<valVars, hashVars, regVars, resVars, loopVars, legacyVars>>
vars == <<task, agent_actions, heap, current_data, pc, current_data_hash,
          gt_data, syntactic_info, semantic_info, result, hx0, hx, hout,
          domains, domain_paths, op, rpc, rarg,
          domain_config, env_pc, components, attempts, tools, tool_map,
          idx, invoked, report, skip_semantics, legacy_pc>>

None == [t |-> "none"]
NoResult == [kind |-> "none"]

\* A plausible slip: the loader builds the snapshot once and hands out that
\* one object on every later call.
data_load_func_cached(h) ==
    IF h = <<>> THEN [heap |-> <<load_data>>, ref |-> 1]
    ELSE [heap |-> h, ref |-> 1]

\* data_load_func(): load_data() builds a new object on every call.
data_load_func(h) == [heap |-> Append(h, load_data), ref |-> Len(h) + 1]

HashIdle == hx0 = None /\ hx = None /\ hout = None

NThreads == 2
Threads == 1..NThreads

\* DomainRegistry.__init__: both maps empty; no call made, no thread inside.
RegistryIdle ==
    /\ domains = PDict(<<>>)
    /\ domain_paths = PDict(<<>>)
    /\ op = None
    /\ rpc = [th \in Threads |-> "idle"]
    /\ rarg = [th \in Threads |-> None]

\* No GenericDomainEnv under construction.
ResolverIdle ==
    /\ domain_config = None
    /\ env_pc = "idle"
    /\ components = None
    /\ attempts = <<>>

\* No SemanticValidator under construction.
ToolsIdle == tools = <<>> /\ tool_map = None

\* No replay loop being gone through step by step.
LoopIdle == idx = 0 /\ invoked = <<>>

\* No validate_task of task_validation.TaskValidator under way.
LegacyIdle == report = None /\ skip_semantics = FALSE /\ legacy_pc = "idle"

Init ==
    /\ task \in Tasks
    /\ agent_actions = <<>>
    /\ heap = data_load_func(<<>>).heap
    /\ current_data = 1
    /\ pc = [c \in Calls |-> "idle"]
    /\ current_data_hash = [c \in Calls |-> None]
    /\ gt_data = [c \in Calls |-> 0]
    /\ syntactic_info = [c \in Calls |-> None]
    /\ semantic_info = [c \in Calls |-> None]
    /\ result = [c \in Calls |-> NoResult]
    /\ HashIdle
    /\ RegistryIdle
    /\ ResolverIdle
    /\ ToolsIdle
    /\ LoopIdle
    /\ LegacyIdle

\* The environment applies one agent action to its snapshot: the tool of
\* that name is invoked on the data; any other action only joins the trace.
EnvApply(a, data) ==
    IF a.name \in ToolNames THEN tools_map_invoke(a.name, data, a.kwargs).data
    ELSE data

AgentStep(a) ==
    /\ \A c \in Calls : pc[c] = "idle"
    /\ Len(agent_actions) < MaxAgentActions
    /\ agent_actions' = Append(agent_actions, a)
    /\ heap' = [heap EXCEPT ![current_data] = EnvApply(a, @)]
    /\ UNCHANGED <<task, current_data, pc, current_data_hash, gt_data,
                   syntactic_info, semantic_info, result, hashVars, idleVars>>

\* validate_task up to the replay loop of validate_syntactic: hash the
\* snapshot handed in, then obtain gt_data from data_load_func.
StartWith(c, h, loaded) ==
    IF IsRaise(h)
    THEN /\ result' = [result EXCEPT ![c] = Raised(h)]
         /\ pc' = [pc EXCEPT ![c] = "done"]
         /\ UNCHANGED <<heap, current_data_hash, gt_data>>
    ELSE /\ current_data_hash' = [current_data_hash EXCEPT ![c] = h]
         /\ heap' = loaded.heap
         /\ gt_data' = [gt_data EXCEPT ![c] = loaded.ref]
         /\ pc' = [pc EXCEPT ![c] = "loaded"]
         /\ UNCHANGED result

\* The calls are interchangeable, so they are numbered in the order in
\* which they enter validate_task.
ValidateStart(c) ==
    /\ pc[c] = "idle"
    /\ \A d \in Calls : d < c => pc[d] # "idle"
    /\ StartWith(c, get_data_hash(heap[current_data]), data_load_func(heap))
    /\ UNCHANGED <<task, agent_actions, current_data, syntactic_info,
                   semantic_info, hashVars, idleVars>>

\* The replay loop of validate_syntactic: execute_action(action, gt_data)
\* for every action of task.actions, in order.
RECURSIVE replay(_, _)
replay(actions, data) ==
    IF actions = <<>> THEN data
    ELSE replay(Tail(actions), execute_action(Head(actions), data))

Replay(c) ==
    /\ pc[c] = "loaded"
    /\ heap' = [heap EXCEPT ![gt_data[c]] = replay(task.actions, @)]
    /\ pc' = [pc EXCEPT ![c] = "replayed"]
    /\ UNCHANGED <<task, agent_actions, current_data, current_data_hash,
                   gt_data, syntactic_info, semantic_info, result, hashVars, idleVars>>

\* The rest of validate_task: hash gt_data, compare, run the semantic
\* channel, combine and return.  An exception of either step propagates out
\* of validate_task.
FinishWith(c, syn, sem) ==
    /\ syntactic_info' = [syntactic_info EXCEPT ![c] = syn]
    /\ semantic_info' = [semantic_info EXCEPT ![c] = IF IsRaise(syn) THEN None ELSE sem]
    /\ result' = [result EXCEPT ![c] =
           IF IsRaise(syn) THEN Raised(syn)
           ELSE IF IsRaise(sem) THEN Raised(sem)
           ELSE RewardResult(task, syn, sem)]

SyntacticInfo(c, gt_data_hash) ==
    IF IsRaise(gt_data_hash) THEN gt_data_hash
    ELSE RewardActionInfo(current_data_hash[c] = gt_data_hash, gt_data_hash)

ValidateFinish(c) ==
    /\ pc[c] = "replayed"
    /\ FinishWith(c, SyntacticInfo(c, get_data_hash(heap[gt_data[c]])),
                  validate_semantic(task, agent_actions))
    /\ pc' = [pc EXCEPT ![c] = "done"]
    /\ UNCHANGED <<task, agent_actions, heap, current_data, current_data_hash,
                   gt_data, hashVars, idleVars>>

\* No call is inside validate_task.
NoCallInside == \A c \in Calls : pc[c] \in {"idle", "done"}

\* validate_task entered while no other call is inside.
ValidateAlone(c) == NoCallInside /\ ValidateStart(c)

\* The agent acts, then the trace is validated NCalls times, one call after
\* the other; SpecCalls below runs the calls concurrently.
Next ==
    \/ \E a \in AgentActions : AgentStep(a)
    \/ \E c \in Calls : ValidateAlone(c)
    \/ \E c \in Calls : Replay(c)
    \/ \E c \in Calls : ValidateFinish(c)

Spec == Init /\ [][Next]_vars

\* Concurrent calls, after a shorter choice of agent actions: one that
\* changes the snapshot as a task does, one that changes it otherwise, one
\* that only joins the trace.
CallActions ==
    { act_schedule, act_cancel("APT001"), act_respond(txt_task_completed) }

NextCalls ==
    \/ \E a \in CallActions : AgentStep(a)
    \/ \E c \in Calls : ValidateStart(c)
    \/ \E c \in Calls : Replay(c)
    \/ \E c \in Calls : ValidateFinish(c)

SpecCalls == Init /\ [][NextCalls]_vars

\* ------------------------------------------------------------------------
\* The replay loop of validate_syntactic, one action at a time
\* ------------------------------------------------------------------------
\* A tool call whose keyword does not bind to the signature of invoke.
act_cancel_unbound == Action("cancel_appointment", [id |-> "APT001"])

ReplayTasks ==
    Tasks \cup
    { Task(<<act_cancel_unbound>>, <<>>),
      Task(<<act_cancel_unbound, act_cancel("APT001")>>, <<>>),
      Task(<<act_schedule, act_cancel_unbound, act_schedule>>, <<>>),
      Task(<<act_respond(txt_task_completed), act_schedule>>, <<>>) }

InitReplay ==
    /\ task \in ReplayTasks
    /\ agent_actions = <<>>
    /\ heap = data_load_func(<<>>).heap
    /\ current_data = 1
    /\ pc = [c \in Calls |-> "idle"]
    /\ current_data_hash = [c \in Calls |-> None]
    /\ gt_data = [c \in Calls |-> 0]
    /\ syntactic_info = [c \in Calls |-> None]
    /\ semantic_info = [c \in Calls |-> None]
    /\ result = [c \in Calls |-> NoResult]
    /\ HashIdle
    /\ RegistryIdle
    /\ ResolverIdle
    /\ ToolsIdle
    /\ LoopIdle
    /\ LegacyIdle

\* What execute_action(action, data) invokes: the tool of that name, with
\* whether the call raised, or nothing.
Invocation(action, data) ==
    IF action.name \in ToolNames /\ action.name \notin terminate_tools
    THEN <<[action |-> action,
            raised |-> tools_map_invoke(action.name, data, action.kwargs).raised]>>
    ELSE <<>>

\* A plausible slip: execute_action without the try/except, so that the
\* exception of a tool leaves validate_task.
ExecuteAction_propagates(c) ==
    /\ pc[c] = "loaded"
    /\ idx < Len(task.actions)
    /\ LET action == task.actions[idx + 1]
           made == Invocation(action, heap[gt_data[c]]) IN
       /\ heap' = [heap EXCEPT ![gt_data[c]] = execute_action(action, @)]
       /\ invoked' = invoked \o made
       /\ IF made # <<>> /\ made[1].raised
          THEN /\ pc' = [pc EXCEPT ![c] = "done"]
               /\ result' = [result EXCEPT ![c] = Raised(Raise("TypeError"))]
          ELSE UNCHANGED <<pc, result>>
    /\ idx' = idx + 1
    /\ UNCHANGED <<task, agent_actions, current_data, current_data_hash,
                   gt_data, syntactic_info, semantic_info, hashVars,
                   regVars, resVars, toolVars, legacyVars>>

\* One turn of "for action in task.actions: self.execute_action(action, gt_data)".
ExecuteAction(c) ==
    /\ pc[c] = "loaded"
    /\ idx < Len(task.actions)
    /\ LET action == task.actions[idx + 1] IN
       /\ heap' = [heap EXCEPT ![gt_data[c]] = execute_action(action, @)]
       /\ invoked' = invoked \o Invocation(action, heap[gt_data[c]])
    /\ idx' = idx + 1
    /\ UNCHANGED <<task, agent_actions, current_data, pc, current_data_hash,
                   gt_data, syntactic_info, semantic_info, result, hashVars,
                   regVars, resVars, toolVars, legacyVars>>

\* The loop is over: validate_syntactic goes on to hash gt_data.
LoopEnd(c) ==
    /\ pc[c] = "loaded"
    /\ idx = Len(task.actions)
    /\ pc' = [pc EXCEPT ![c] = "replayed"]
    /\ UNCHANGED <<task, agent_actions, heap, current_data, current_data_hash,
                   gt_data, syntactic_info, semantic_info, result, hashVars,
                   idleVars>>

\* The agent acts, then one validate_task call is followed through its loop.
NextReplay ==
    \/ \E a \in CallActions : AgentStep(a)
    \/ ValidateStart(1)
    \/ ExecuteAction(1)
    \/ LoopEnd(1)
    \/ ValidateFinish(1)

SpecReplay == InitReplay /\ [][NextReplay]_vars

\* ------------------------------------------------------------------------
\* Validation of tasks whose expected outputs contain a comma
\* ------------------------------------------------------------------------
CommaTasks ==
    { Task(<<>>, <<txt_SUCCESS, txt_1c000>>),
      Task(<<act_cancel("APT001")>>, <<txt_1c000>>),
      Task(<<>>, <<txt_1000>>) }

CommaActions ==
    { act_respond(txt_1c000), act_respond(txt_1000), act_respond(txt_total),
      act_respond(txt_SUCCESS), act_cancel("APT001") }

InitComma ==
    /\ task \in CommaTasks
    /\ agent_actions = <<>>
    /\ heap = data_load_func(<<>>).heap
    /\ current_data = 1
    /\ pc = [c \in Calls |-> "idle"]
    /\ current_data_hash = [c \in Calls |-> None]
    /\ gt_data = [c \in Calls |-> 0]
    /\ syntactic_info = [c \in Calls |-> None]
    /\ semantic_info = [c \in Calls |-> None]
    /\ result = [c \in Calls |-> NoResult]
    /\ HashIdle
    /\ RegistryIdle
    /\ ResolverIdle
    /\ ToolsIdle
    /\ LoopIdle
    /\ LegacyIdle

NextComma ==
    \/ \E a \in CommaActions : AgentStep(a)
    \/ \E c \in Calls : ValidateAlone(c)
    \/ \E c \in Calls : Replay(c)
    \/ \E c \in Calls : ValidateFinish(c)

SpecComma == InitComma /\ [][NextComma]_vars

\* ------------------------------------------------------------------------
\* The canonical encoder on its own: to_hashable and consistent_hash applied
\* to snapshots whose dicts and sets are presented in any order
\* ------------------------------------------------------------------------
HashInputs ==
    { \* nested dicts, a list and a set of str
      PDict(<<KV(PStr("b"), PDict(<<KV(PStr("y"), PInt(1)),
                                    KV(PStr("x"), PInt(12))>>)),
              KV(PStr("a"), PList(<<PInt(3), PInt(1), PInt(2)>>)),
              KV(PStr("c"), PSet(<<PStr("x"), PStr("a"), PStr("b")>>))>>),
      \* int keys, a set of int inside a list, a dict inside a list
      PDict(<<KV(PInt(2), PList(<<PSet(<<PInt(3), PInt(1), PInt(20)>>),
                                  PDict(<<KV(PStr("y"), PStr("a")),
                                          KV(PStr("x"), PStr("b"))>>)>>)),
              KV(PInt(1), PStr("a"))>>),
      \* keys of mixed type, and a set of mixed type
      PDict(<<KV(PInt(1), PStr("a")), KV(PStr("b"), PInt(2)),
              KV(PStr("a"), PInt(3))>>),
      PDict(<<KV(PStr("a"), PSet(<<PStr("a"), PInt(1)>>)),
              KV(PStr("b"), PSet(<<PInt(2), PInt(1)>>))>>),
      \* one appointment of load_data
      DictGet(DictGet(load_data, PStr("appointments")), PStr("APT001")) }

SwapAt(seq, i) == [seq EXCEPT ![i] = seq[i + 1], ![i + 1] = seq[i]]

\* The values obtained from v by exchanging two neighbouring items of one
\* dict, or two neighbouring elements of one set, at any depth.
RECURSIVE SwapsOf(_)
SwapsIn(v, i) ==
    IF v.t = "dict"
    THEN {[v EXCEPT !.items[i].v = w] : w \in SwapsOf(v.items[i].v)}
    ELSE {[v EXCEPT !.items[i] = w] : w \in SwapsOf(v.items[i])}
SwapsOf(v) ==
    IF v.t \notin {"dict", "list", "set", "tuple"} THEN {}
    ELSE (IF v.t \in {"list", "tuple"} THEN {}
          ELSE {[v EXCEPT !.items = SwapAt(v.items, i)] :
                    i \in 1..(Len(v.items) - 1)})
         \cup UNION {SwapsIn(v, i) : i \in DOMAIN v.items}

\* What a caller of to_hashable and consistent_hash gets for a value.
Canonical(v) == [canon |-> to_hashable(v), hash |-> get_data_hash(v)]

ValidatorIdle ==
    /\ task = Task(<<>>, <<>>)
    /\ agent_actions = <<>>
    /\ heap = <<>>
    /\ current_data = 0
    /\ pc = [c \in Calls |-> "idle"]
    /\ current_data_hash = [c \in Calls |-> None]
    /\ gt_data = [c \in Calls |-> 0]
    /\ syntactic_info = [c \in Calls |-> None]
    /\ semantic_info = [c \in Calls |-> None]
    /\ result = [c \in Calls |-> NoResult]

InitHash ==
    /\ RegistryIdle
    /\ ResolverIdle
    /\ ToolsIdle
    /\ LoopIdle
    /\ LegacyIdle
    /\ hx0 \in HashInputs
    /\ hx = hx0
    /\ hout = None
    /\ ValidatorIdle

\* The same snapshot with one dict or set presented in another order.
Reorder ==
    /\ hx' \in SwapsOf(hx)
    /\ UNCHANGED <<hx0, hout, valVars, idleVars>>

\* to_hashable followed by consistent_hash on the snapshot as presented.
Canonicalize ==
    /\ hout' = Canonical(hx)
    /\ UNCHANGED <<hx0, hx, valVars, idleVars>>

NextHash == Reorder \/ Canonicalize

SpecHash == InitHash /\ [][NextHash]_vars

\* ------------------------------------------------------------------------
\* Two snapshots compared through the encoder: the second is the first with
\* one list reordered, or with dicts or sets turned into lists
\* ------------------------------------------------------------------------
ShapeInputs ==
    { \* lists of str and of int
      PDict(<<KV(PStr("patients"), PList(<<PStr("PAT002"), PStr("PAT001")>>)),
              KV(PStr("results"), PList(<<PInt(3), PInt(1), PInt(2)>>))>>),
      \* a list of lists, and a list of an empty list and an empty dict
      PDict(<<KV(PStr("results"), PList(<<PList(<<PInt(1), PInt(2)>>),
                                       PList(<<PInt(2), PInt(1)>>)>>)),
              KV(PStr("status"), PList(<<PList(<<>>), PDict(<<>>)>>))>>),
      \* a list of a one-element list and a one-element set
      PDict(<<KV(PStr("name"), PList(<<PList(<<PStr("a")>>),
                                       PSet(<<PStr("a")>>)>>))>>),
      \* dicts of one key and of two keys, the latter in both orders
      PDict(<<KV(PStr("a"), PDict(<<KV(PStr("k"), PInt(1))>>)),
              KV(PStr("b"), PDict(<<KV(PStr("x"), PInt(1)),
                                    KV(PStr("y"), PInt(2))>>)),
              KV(PStr("c"), PDict(<<KV(PStr("y"), PInt(2)),
                                    KV(PStr("x"), PInt(1))>>))>>),
      \* sets in sorted and in unsorted order
      PDict(<<KV(PStr("type"), PSet(<<PStr("a"), PStr("b")>>)),
              KV(PStr("date"), PSet(<<PInt(2), PInt(1)>>))>>),
      \* nested dicts, a list and a set
      PDict(<<KV(PStr("b"), PDict(<<KV(PStr("y"), PInt(1)),
                                    KV(PStr("x"), PInt(12))>>)),
              KV(PStr("a"), PList(<<PInt(3), PInt(1), PInt(2)>>)),
              KV(PStr("c"), PSet(<<PStr("x"), PStr("a"), PStr("b")>>))>>),
      \* the appointments of load_data and a waiting list
      PDict(<<KV(PStr("appointments"), DictGet(load_data, PStr("appointments"))),
              KV(PStr("patients"), PList(<<PStr("PAT001"), PStr("PAT002"),
                                          PStr("PAT003")>>))>>) }

\* The values obtained from v by exchanging two neighbouring, different
\* elements of one list, at any depth.
RECURSIVE ListSwapsOf(_)
ListSwapsIn(v, i) ==
    IF v.t = "dict"
    THEN {[v EXCEPT !.items[i].v = w] : w \in ListSwapsOf(v.items[i].v)}
    ELSE {[v EXCEPT !.items[i] = w] : w \in ListSwapsOf(v.items[i])}
ListSwapsOf(v) ==
    IF v.t \notin {"dict", "list", "set"} THEN {}
    ELSE (IF v.t # "list" THEN {}
          ELSE {[v EXCEPT !.items = SwapAt(v.items, i)] :
                    i \in {j \in 1..(Len(v.items) - 1) :
                              v.items[j] # v.items[j + 1]}})
         \cup UNION {ListSwapsIn(v, i) : i \in DOMAIN v.items}

\* list(d.items()) with each pair a list, and list(s)
AsList(v) ==
    IF v.t = "dict"
    THEN PList([i \in DOMAIN v.items |-> PList(<<v.items[i].k, v.items[i].v>>)])
    ELSE PList(v.items)

\* The values obtained from v by turning one dict or one set into a list,
\* at any depth.
RECURSIVE AsListsOf(_)
AsListsIn(v, i) ==
    IF v.t = "dict"
    THEN {[v EXCEPT !.items[i].v = w] : w \in AsListsOf(v.items[i].v)}
    ELSE {[v EXCEPT !.items[i] = w] : w \in AsListsOf(v.items[i])}
AsListsOf(v) ==
    IF v.t \notin {"dict", "list", "set"} THEN {}
    ELSE (IF v.t = "list" THEN {} ELSE {AsList(v)})
         \cup UNION {AsListsIn(v, i) : i \in DOMAIN v.items}

InitShape ==
    /\ RegistryIdle
    /\ ResolverIdle
    /\ ToolsIdle
    /\ LoopIdle
    /\ LegacyIdle
    /\ hx0 \in ShapeInputs
    /\ hx = hx0
    /\ hout = None
    /\ ValidatorIdle

\* The second snapshot has one list in another order.
ReorderList ==
    /\ hx = hx0
    /\ hx' \in ListSwapsOf(hx)
    /\ hout' = [t |-> "edited", edit |-> "reordered"]
    /\ UNCHANGED <<hx0, valVars, idleVars>>

\* The second snapshot has a list where the first has a dict or a set, in
\* one more place.
Restructure ==
    /\ hout = None \/ (hout.t = "edited" /\ hout.edit = "restructured")
    /\ hx' \in AsListsOf(hx)
    /\ hout' = [t |-> "edited", edit |-> "restructured"]
    /\ UNCHANGED <<hx0, valVars, idleVars>>

\* Both snapshots through to_hashable and consistent_hash, and the
\* comparison of validate_syntactic on the two digests.
CompareHashes ==
    /\ hout # None
    /\ hout.t = "edited"
    /\ hout' = [t |-> "compared", edit |-> hout.edit,
                first |-> Canonical(hx0), second |-> Canonical(hx),
                r_actions |-> get_data_hash(hx0) = get_data_hash(hx)]
    /\ UNCHANGED <<hx0, hx, valVars, idleVars>>

NextShape == ReorderList \/ Restructure \/ CompareHashes

SpecShape == InitShape /\ [][NextShape]_vars

\* ------------------------------------------------------------------------
\* The same snapshot hashed in two process runs: the second run builds the
\* snapshot anew, so its dicts and sets may be laid out in another order and
\* its objects live at other addresses
\* ------------------------------------------------------------------------
Addresses == {"0x7f3a10", "0x7f3a58", "0x7f4b20"}

RunInputs ==
    { \* a record object among plain values
      PDict(<<KV(PStr("b"), PList(<<PObject("Patient", "0x7f3a10"), PInt(2)>>)),
              KV(PStr("a"), PSet(<<PStr("x"), PStr("a"), PStr("b")>>)),
              KV(PStr("c"), PInt(1))>>),
      \* an object as a dict value, one as the only element of a set
      PDict(<<KV(PStr("x"), PObject("Patient", "0x7f3a10")),
              KV(PStr("y"), PSet(<<PObject("Doctor", "0x7f3a58")>>))>>),
      \* a tuple, which to_hashable does not look into, holding a set
      PDict(<<KV(PStr("a"), PTuple(<<PInt(1), PSet(<<PStr("x"), PStr("a")>>)>>)),
              KV(PStr("b"), PInt(2))>>),
      \* plain values only
      PDict(<<KV(PStr("b"), PList(<<PStr("x"), PInt(2)>>)),
              KV(PStr("a"), PSet(<<PInt(3), PInt(1), PInt(20)>>)),
              KV(PStr("c"), PInt(1))>>),
      DictGet(DictGet(load_data, PStr("appointments")), PStr("APT001")) }

\* The values obtained from v by moving one of its objects, at any depth, to
\* another address.
RECURSIVE MovesOf(_)
MovesIn(v, i) ==
    IF v.t = "dict"
    THEN {[v EXCEPT !.items[i].v = w] : w \in MovesOf(v.items[i].v)}
    ELSE {[v EXCEPT !.items[i] = w] : w \in MovesOf(v.items[i])}
MovesOf(v) ==
    IF v.t = "object" THEN {[v EXCEPT !.addr = a] : a \in Addresses \ {v.addr}}
    ELSE IF v.t \notin {"dict", "list", "set", "tuple"} THEN {}
    ELSE UNION {MovesIn(v, i) : i \in DOMAIN v.items}

RECURSIVE HasObject(_)
HasObject(v) ==
    IF v.t = "object" THEN TRUE
    ELSE IF v.t \notin {"dict", "list", "set", "tuple"} THEN FALSE
    ELSE \E i \in DOMAIN v.items :
             HasObject(IF v.t = "dict" THEN v.items[i].v ELSE v.items[i])

InitRuns ==
    /\ ValidatorIdle
    /\ RegistryIdle
    /\ ResolverIdle
    /\ ToolsIdle
    /\ LoopIdle
    /\ LegacyIdle
    /\ hx0 \in RunInputs
    /\ hx = hx0
    /\ hout = None

Relocate ==
    /\ hout = None
    /\ hx' \in MovesOf(hx)
    /\ UNCHANGED <<valVars, hx0, hout, idleVars>>

NextRuns ==
    \/ Reorder
    \/ Relocate
    \/ Canonicalize

SpecRuns == InitRuns /\ [][NextRuns]_vars

\* ------------------------------------------------------------------------
\* DomainRegistry (domain_config.py): descriptors, descriptor files, the
\* registry operations
\* ------------------------------------------------------------------------
\* A DomainConfig, by its name and version; config_path is the _config_path
\* attribute load_domain_from_file sets on it.
DomainConfig(name, version) ==
    [t |-> "DomainConfig", name |-> name, version |-> version, config_path |-> None]

\* A pathlib.Path: directory components, file stem, suffix.
Path(dir, stem, suffix) == [t |-> "path", dir |-> dir, stem |-> stem, suffix |-> suffix]

\* The documents of the descriptor files: a mapping with every required
\* field, a mapping that lacks a required field, a text that does not parse.
DocOk(name, version) == [t |-> "mapping", complete |-> TRUE, name |-> name, version |-> version]
DocMissingField == [t |-> "mapping", complete |-> FALSE, name |-> "", version |-> ""]
DocSyntaxError == [t |-> "unparsable", complete |-> FALSE, name |-> "", version |-> ""]

\* The file system: the files that exist, each with its document.
FileSystem ==
    << [path |-> Path(<<"envs", "retail">>, "domain", ".yaml"), doc |-> DocOk("retail", "1.0.0")],
       [path |-> Path(<<"envs", "retail_old">>, "domain", ".yaml"), doc |-> DocOk("retail", "0.9.0")],
       [path |-> Path(<<"envs", "airline">>, "domain", ".yaml"), doc |-> DocMissingField],
       [path |-> Path(<<"envs", "retail_next">>, "domain", ".yml"), doc |-> DocOk("retail", "2.0.0")],
       [path |-> Path(<<"envs", "healthcare">>, "domain", ".json"), doc |-> DocOk("healthcare", "1.0.0")],
       [path |-> Path(<<"envs", "broken">>, "domain", ".json"), doc |-> DocSyntaxError],
       [path |-> Path(<<"cfg">>, "custom", ".YAML"), doc |-> DocOk("custom", "1.0.0")],
       [path |-> Path(<<"cfg">>, "notes", ".txt"), doc |-> DocOk("notes", "1.0.0")] >>

MissingFile == Path(<<"cfg">>, "missing", ".yaml")
LoadPaths ==
    {FileSystem[i].path : i \in {1, 3, 6, 7, 8}} \cup {MissingFile}
Roots == {"envs", "cfg", "nowhere"}

exists(path) == \E i \in DOMAIN FileSystem : FileSystem[i].path = path
DocOf(path) == FileSystem[CHOOSE i \in DOMAIN FileSystem : FileSystem[i].path = path].doc
DirExists(root) == \E i \in DOMAIN FileSystem : FileSystem[i].path.dir[1] = root

\* config_path.suffix.lower()
suffix_lower(path) ==
    IF path.suffix \in {".yaml", ".YAML"} THEN ".yaml"
    ELSE IF path.suffix \in {".yml", ".YML"} THEN ".yml"
    ELSE IF path.suffix \in {".json", ".JSON"} THEN ".json"
    ELSE path.suffix

\* The state of a registry, and the outcome of a call on it.
Registry(d, p) == [domains |-> d, domain_paths |-> p]
Call(reg, ret) == [reg |-> reg, ret |-> ret]

\* register_domain, first statement: self._domains[config.name] = config
store_domain(reg, config) ==
    Registry(DictSet(reg.domains, PStr(config.name), config), reg.domain_paths)

\* register_domain, second statement:
\* if config_path: self._domain_paths[config.name] = config_path
store_path(reg, config, config_path) ==
    IF config_path = None THEN reg
    ELSE Registry(reg.domains, DictSet(reg.domain_paths, PStr(config.name), config_path))

\* A plausible slip: a name already registered keeps its first descriptor.
register_domain_keep_first(reg, config, config_path) ==
    IF DictHas(reg.domains, PStr(config.name)) THEN reg
    ELSE store_path(store_domain(reg, config), config, config_path)

register_domain(reg, config, config_path) ==
    store_path(store_domain(reg, config), config, config_path)

\* get_domain(name) = self._domains.get(name)
dict_get(d, name) ==
    IF DictHas(d, PStr(name)) THEN DictGet(d, PStr(name)) ELSE None
get_domain(name) == dict_get(domains, name)

\* list_domains() = list(self._domains.keys())
list_domains == [i \in DOMAIN domains.items |-> domains.items[i].k.s]

\* yaml.safe_load / json.load of the file, by suffix; then DomainConfig(**data).
ParseFile(config_path) ==
    IF suffix_lower(config_path) \in {".yaml", ".yml"}
    THEN IF DocOf(config_path).t = "unparsable" THEN Raise("YAMLError")
         ELSE DocOf(config_path)
    ELSE IF suffix_lower(config_path) = ".json"
    THEN IF DocOf(config_path).t = "unparsable" THEN Raise("JSONDecodeError")
         ELSE DocOf(config_path)
    ELSE Raise("ValueError")

Validate(data, config_path) ==
    IF ~data.complete THEN Raise("ValidationError")
    ELSE [DomainConfig(data.name, data.version) EXCEPT !.config_path = config_path]

\* A plausible slip: the descriptor is registered before it is validated.
RegisterLoaded_early(reg, data, config, config_path) ==
    IF IsRaise(data) THEN Call(reg, data)
    ELSE IF IsRaise(config)
    THEN Call(register_domain(reg, DomainConfig(data.name, data.version), config_path), config)
    ELSE Call(register_domain(reg, config, config_path), config)

RegisterLoaded(reg, data, config, config_path) ==
    IF IsRaise(data) THEN Call(reg, data)
    ELSE IF IsRaise(config) THEN Call(reg, config)
    ELSE Call(register_domain(reg, config, config_path), config)

load_domain_from_file(reg, config_path) ==
    IF ~exists(config_path) THEN Call(reg, Raise("FileNotFoundError"))
    ELSE RegisterLoaded(reg, ParseFile(config_path),
                        IF IsRaise(ParseFile(config_path)) THEN None
                        ELSE Validate(ParseFile(config_path), config_path),
                        config_path)

\* domains_dir.rglob("domain" + suffix): the files of that exact name below
\* the directory, in an order the file system chooses.
rglob(domains_dir, suffix) ==
    {FileSystem[i].path : i \in {j \in DOMAIN FileSystem :
         /\ FileSystem[j].path.dir[1] = domains_dir.dir[1]
         /\ FileSystem[j].path.stem = "domain"
         /\ FileSystem[j].path.suffix = suffix}}

Orders(S) ==
    {f \in [1..Cardinality(S) -> S] : \A i, j \in DOMAIN f : i # j => f[i] # f[j]}

\* What a scan has done so far: the registry, the list to return, the
\* files a warning was printed for.
Scan(reg, discovered, warnings) ==
    [reg |-> reg, discovered |-> discovered, warnings |-> warnings]

\* One pass of a discovery loop: try load_domain_from_file, append the
\* config, or print a warning on any Exception.
discover_step(acc, config_file, loaded) ==
    IF IsRaise(loaded.ret)
    THEN Scan(acc.reg, acc.discovered, Append(acc.warnings, config_file))
    ELSE Scan(loaded.reg, Append(acc.discovered, loaded.ret), acc.warnings)

\* A plausible slip: the first failure ends the scan.
RECURSIVE discover_loop_abort(_, _)
discover_loop_abort(files, acc) ==
    IF files = <<>> THEN acc
    ELSE IF IsRaise(load_domain_from_file(acc.reg, Head(files)).ret)
    THEN Scan(acc.reg, acc.discovered, Append(acc.warnings, Head(files)))
    ELSE discover_loop_abort(Tail(files),
             discover_step(acc, Head(files),
                           load_domain_from_file(acc.reg, Head(files))))

RECURSIVE discover_loop(_, _)
discover_loop(files, acc) ==
    IF files = <<>> THEN acc
    ELSE discover_loop(Tail(files),
             discover_step(acc, Head(files),
                           load_domain_from_file(acc.reg, Head(files))))

\* discover_domains: nothing for a directory that does not exist; else the
\* three loops over domain.yaml, domain.yml and domain.json, given here as
\* the files in the order the loops visit them.
discover_domains(reg, domains_dir, files) ==
    IF ~DirExists(domains_dir.dir[1]) THEN Scan(reg, <<>>, <<>>)
    ELSE discover_loop(files, Scan(reg, <<>>, <<>>))

\* The record of a call: its name, argument, return value or exception, and
\* the files it printed a warning for.
Op(name, arg, ret, warnings) ==
    [t |-> name, arg |-> arg, ret |-> ret, warnings |-> warnings]

RegisterCalls ==
    { <<DomainConfig("retail", "3.0.0"), Path(<<"cfg">>, "custom", ".YAML")>>,
      <<DomainConfig("test_registry", "1.0.0"), None>>,
      <<DomainConfig("retail", "4.0.0"), None>> }

NoThreadInside == \A th \in Threads : rpc[th] = "idle"

SetRegistry(reg) ==
    /\ domains' = reg.domains
    /\ domain_paths' = reg.domain_paths

RegisterDomain(config, config_path) ==
    /\ NoThreadInside
    /\ SetRegistry(register_domain(Registry(domains, domain_paths), config, config_path))
    /\ op' = Op("register_domain", config, None, <<>>)
    /\ UNCHANGED <<outsideReg, rpc, rarg>>

Loaded(path, call) ==
    /\ SetRegistry(call.reg)
    /\ op' = Op("load_domain_from_file", path, call.ret, <<>>)

LoadDomainFromFile(config_path) ==
    /\ NoThreadInside
    /\ Loaded(config_path, load_domain_from_file(Registry(domains, domain_paths), config_path))
    /\ UNCHANGED <<outsideReg, rpc, rarg>>

Discovered(domains_dir, scan) ==
    /\ SetRegistry(scan.reg)
    /\ op' = Op("discover_domains", domains_dir, PList(scan.discovered), scan.warnings)

DiscoverDomains(domains_dir) ==
    /\ NoThreadInside
    /\ \E yaml \in Orders(rglob(domains_dir, ".yaml")),
          yml \in Orders(rglob(domains_dir, ".yml")),
          json \in Orders(rglob(domains_dir, ".json")) :
           Discovered(domains_dir,
                      discover_domains(Registry(domains, domain_paths), domains_dir,
                                       yaml \o yml \o json))
    /\ UNCHANGED <<outsideReg, rpc, rarg>>

InitReg ==
    /\ ValidatorIdle
    /\ HashIdle
    /\ RegistryIdle
    /\ ResolverIdle
    /\ ToolsIdle
    /\ LoopIdle
    /\ LegacyIdle

NextReg ==
    \/ \E call \in RegisterCalls : RegisterDomain(call[1], call[2])
    \/ \E config_path \in LoadPaths : LoadDomainFromFile(config_path)
    \/ \E root \in Roots : DiscoverDomains(Path(<<root>>, "", ""))

SpecReg == InitReg /\ [][NextReg]_vars

\* ------------------------------------------------------------------------
\* GenericDomainEnv (envs/generic.py): binding the refs of a descriptor to
\* components
\* ------------------------------------------------------------------------
\* A ref, by what the environment answers for it.  sym: importing it as a
\* dotted path gives the symbol ("found"), fails to import ("no_module"),
\* imports a module without the symbol ("no_symbol"), or the ref has no dot
\* to split at ("no_dot").  file: the path below config_base_path holds a
\* source with the symbol ("found"), does not exist ("absent"), holds a
\* source without the symbol ("no_symbol"), or one that raises when executed
\* ("exec_raises").
Ref(sym, file) == [sym |-> sym, file |-> file]

\* A wiki ref: the first of the three locations at which the file exists
\* ("base", "config_dir_name", "config_dir_full", or "absent"), and sym as
\* above.
WikiRef(at, sym) == [at |-> at, sym |-> sym]

\* A ToolConfig: name and the ref made of module_path and class_name.
ToolConfig(name, ref) == [name |-> name, ref |-> ref]

\* A resolved component, by the strategy that found it.
Bound(kind, name, by) == [t |-> "bound", kind |-> kind, name |-> name, by |-> by]

\* One resolution attempt: strategy "symbolic" (importlib.import_module) or
\* "file" (a path below a base directory: exists(), then load).
Attempt(kind, name, strategy) == [kind |-> kind, name |-> name, strategy |-> strategy]

\* What a loader did: its return value or exception, its attempts in order,
\* the warnings it printed.
Loader(ret, tried, warned) == [ret |-> ret, tried |-> tried, warned |-> warned]

\* The file half of _load_data_function, _load_tasks and _load_rules: a
\* found symbol is returned, anything else ends in the ImportError.
FromFile(kind, ref, tried) ==
    IF ref.file = "found"
    THEN Loader(Bound(kind, "", "file"), Append(tried, Attempt(kind, "", "file")), <<>>)
    ELSE Loader(Raise("ImportError"), Append(tried, Attempt(kind, "", "file")), <<>>)

\* A plausible slip: the file below config_base_path is tried first.
SymbolicThenFile_file_first(kind, ref) ==
    IF ref.file = "found"
    THEN Loader(Bound(kind, "", "file"), <<Attempt(kind, "", "file")>>, <<>>)
    ELSE IF ref.sym = "found"
    THEN Loader(Bound(kind, "", "symbolic"),
                <<Attempt(kind, "", "file"), Attempt(kind, "", "symbolic")>>, <<>>)
    ELSE Loader(Raise("ImportError"),
                <<Attempt(kind, "", "file"), Attempt(kind, "", "symbolic")>>, <<>>)

\* The common shape of _load_data_function, _load_tasks and _load_rules:
\* import first and return on success, else the file, else ImportError.
SymbolicThenFile(kind, ref) ==
    IF ref.sym = "found"
    THEN Loader(Bound(kind, "", "symbolic"), <<Attempt(kind, "", "symbolic")>>, <<>>)
    ELSE FromFile(kind, ref, <<Attempt(kind, "", "symbolic")>>)

_load_data_function(config) == SymbolicThenFile("DataLoader", config.data_loader)

\* _load_tasks: ValueError when the split is not configured.
_load_tasks(config, task_split) ==
    IF task_split \notin DOMAIN config.task_splits
    THEN Loader(Raise("ValueError"), <<>>, <<>>)
    ELSE SymbolicThenFile("TaskList", config.task_splits[task_split])

_load_rules(config) == SymbolicThenFile("RulesList", config.rules_file)

\* _load_wiki: the file below config_base_path, then (when the descriptor
\* has a _config_path) the file name and the full ref below the directory
\* of the descriptor, then the import, then FileNotFoundError.
WikiFromImport(ref, tried) ==
    IF ref.sym = "found"
    THEN Loader(Bound("WikiText", "", "symbolic"),
                Append(tried, Attempt("WikiText", "", "symbolic")), <<>>)
    ELSE Loader(Raise("FileNotFoundError"),
                Append(tried, Attempt("WikiText", "", "symbolic")), <<>>)

WikiFromConfigDir(ref, tried) ==
    IF ref.at = "config_dir_name"
    THEN Loader(Bound("WikiText", "config_dir_name", "file"),
                Append(tried, Attempt("WikiText", "config_dir_name", "file")), <<>>)
    ELSE IF ref.at = "config_dir_full"
    THEN Loader(Bound("WikiText", "config_dir_full", "file"),
                tried \o <<Attempt("WikiText", "config_dir_name", "file"),
                           Attempt("WikiText", "config_dir_full", "file")>>, <<>>)
    ELSE WikiFromImport(ref, tried \o <<Attempt("WikiText", "config_dir_name", "file"),
                                        Attempt("WikiText", "config_dir_full", "file")>>)

_load_wiki(config) ==
    IF config.wiki_file.at = "base"
    THEN Loader(Bound("WikiText", "base", "file"),
                <<Attempt("WikiText", "base", "file")>>, <<>>)
    ELSE IF config.config_path # None
    THEN WikiFromConfigDir(config.wiki_file, <<Attempt("WikiText", "base", "file")>>)
    ELSE WikiFromImport(config.wiki_file, <<Attempt("WikiText", "base", "file")>>)

\* _load_tools, one tool_config: the import, else the file, else a printed
\* warning; the loop goes on with the next tool_config in every case.
LoadTool(acc, tool_config) ==
    IF tool_config.ref.sym = "found"
    THEN Loader(Append(acc.ret, Bound("ToolClass", tool_config.name, "symbolic")),
                Append(acc.tried, Attempt("ToolClass", tool_config.name, "symbolic")),
                acc.warned)
    ELSE IF tool_config.ref.file = "found"
    THEN Loader(Append(acc.ret, Bound("ToolClass", tool_config.name, "file")),
                acc.tried \o <<Attempt("ToolClass", tool_config.name, "symbolic"),
                               Attempt("ToolClass", tool_config.name, "file")>>,
                acc.warned)
    ELSE Loader(acc.ret,
                acc.tried \o <<Attempt("ToolClass", tool_config.name, "symbolic"),
                               Attempt("ToolClass", tool_config.name, "file")>>,
                Append(acc.warned, tool_config.name))

RECURSIVE LoadToolsFrom(_, _)
LoadToolsFrom(tool_configs, acc) ==
    IF tool_configs = <<>> THEN acc
    ELSE LoadToolsFrom(Tail(tool_configs), LoadTool(acc, Head(tool_configs)))

ToolList(acc) == Loader(PList(acc.ret), acc.tried, acc.warned)
_load_tools(config) == ToolList(LoadToolsFrom(config.tools, Loader(<<>>, <<>>, <<>>)))

\* The descriptors tried: every combination of a few refs per component.
DataRefs == {Ref("found", "found"), Ref("no_module", "found"),
             Ref("no_dot", "no_symbol")}
TaskRefs == {Ref("found", "found"), Ref("no_symbol", "found"),
             Ref("no_module", "exec_raises")}
RulesRefs == {Ref("found", "found"), Ref("found", "absent"),
              Ref("no_module", "found"), Ref("no_module", "absent")}
WikiRefs == {WikiRef("base", "found"), WikiRef("config_dir_name", "no_module"),
             WikiRef("config_dir_full", "found"), WikiRef("absent", "found"),
             WikiRef("absent", "no_symbol")}
ToolRefs ==
    { <<ToolConfig("get_patient_info", Ref("found", "found"))>>,
      <<ToolConfig("get_patient_info", Ref("no_module", "found")),
        ToolConfig("cancel_appointment", Ref("no_module", "absent")),
        ToolConfig("schedule_appointment", Ref("found", "absent"))>>,
      <<ToolConfig("cancel_appointment", Ref("no_symbol", "exec_raises"))>> }
SplitSets == {{"train", "test"}, {"train"}}
ConfigPaths == {None, Path(<<"envs", "healthcare">>, "domain", ".yaml")}

EnvConfigs ==
    {[t |-> "DomainConfig", name |-> "healthcare", version |-> "1.0.0",
      config_path |-> cp, data_loader |-> d, tools |-> tl,
      task_splits |-> [sp \in ss |-> tk], wiki_file |-> w, rules_file |-> r] :
        cp \in ConfigPaths, d \in DataRefs, tl \in ToolRefs, ss \in SplitSets,
        tk \in TaskRefs, w \in WikiRefs, r \in RulesRefs}

\* The five components of the environment under construction, the
\* exception that ended the construction, the warnings printed.
NoComponents ==
    [data_load_func |-> None, tools |-> None, tasks |-> None, wiki |-> None,
     rules |-> None, error |-> None, warned |-> <<>>]

\* GenericDomainEnv.__init__ up to the loaders.
Construct(config) ==
    /\ env_pc = "idle"
    /\ domain_config' = config
    /\ components' = NoComponents
    /\ env_pc' = "data"
    /\ UNCHANGED <<attempts, outsideRes>>

\* One loader call of __init__: an exception leaves __init__, a value is
\* kept and the next loader runs.
Ran(field, r, next) ==
    /\ attempts' = attempts \o r.tried
    /\ IF IsRaise(r.ret)
       THEN /\ env_pc' = "raised"
            /\ components' = [components EXCEPT !.error = r.ret]
       ELSE /\ env_pc' = next
            /\ components' = [components EXCEPT ![field] = r.ret,
                                                 !.warned = @ \o r.warned]
    /\ UNCHANGED <<domain_config, outsideRes>>

LoadDataFunction ==
    env_pc = "data" /\ Ran("data_load_func", _load_data_function(domain_config), "tools")

LoadTools ==
    env_pc = "tools" /\ Ran("tools", _load_tools(domain_config), "tasks")

\* task_split is the default "test".
LoadTasks ==
    env_pc = "tasks" /\ Ran("tasks", _load_tasks(domain_config, "test"), "wiki")

LoadWiki ==
    env_pc = "wiki" /\ Ran("wiki", _load_wiki(domain_config), "rules")

LoadRules ==
    env_pc = "rules" /\ Ran("rules", _load_rules(domain_config), "done")

InitEnv ==
    /\ ValidatorIdle
    /\ HashIdle
    /\ RegistryIdle
    /\ ResolverIdle
    /\ ToolsIdle
    /\ LoopIdle
    /\ LegacyIdle

NextEnv ==
    \/ \E config \in EnvConfigs : Construct(config)
    \/ LoadDataFunction
    \/ LoadTools
    \/ LoadTasks
    \/ LoadWiki
    \/ LoadRules

SpecEnv == InitEnv /\ [][NextEnv]_vars

\* ------------------------------------------------------------------------
\* The file half of _load_data_function and _load_tasks on its own: which
\* attribute of the executed source is returned
\* ------------------------------------------------------------------------
\* The names looked for, in the order of the two for loops.
data_func_names == <<"load_data", "load", "get_data">>
task_var_names == <<"TASKS", "TASKS_TEST", "TASKS_TRAIN", "TASKS_DEV", "tasks">>

\* getattr(module, name): the object the source bound to the name.
Attr(name) == [t |-> "attr", name |-> name]

\* hasattr(module, name), for a module given as the names its source
\* defines, in the order in which it defines them.
hasattr(module, name) == \E i \in DOMAIN module : module[i] = name

\* A plausible slip: the names are looked for in the order in which the
\* source defines them.
RECURSIVE FirstDefined_in_source_order(_, _)
FirstDefined_in_source_order(names, module) ==
    IF module = <<>> THEN Raise("ImportError")
    ELSE IF \E i \in DOMAIN names : names[i] = Head(module)
    THEN Attr(Head(module))
    ELSE FirstDefined_in_source_order(names, Tail(module))

\* for name in names: if hasattr(module, name): return getattr(module, name)
\* and, when the loop ends, the ImportError at the end of the loader.
RECURSIVE FirstDefined(_, _)
FirstDefined(names, module) ==
    IF names = <<>> THEN Raise("ImportError")
    ELSE IF hasattr(module, Head(names)) THEN Attr(Head(names))
    ELSE FirstDefined(Tail(names), module)

\* Longest source, in names defined.
MaxDefined == 3

Sources(pool) ==
    {m \in UNION {[1..n -> pool] : n \in 0..MaxDefined} :
        \A i, j \in DOMAIN m : i # j => m[i] # m[j]}

DataSources == Sources({"load_data", "load", "get_data", "reload"})
TaskSources ==
    Sources({"TASKS", "TASKS_TEST", "TASKS_TRAIN", "TASKS_DEV", "tasks", "Task"})
TaskSplits == {"train", "test", "dev"}

Picked(kind, module, split, ret) ==
    [t |-> "picked", kind |-> kind, module |-> module, split |-> split, ret |-> ret]

\* _load_data_function, the import having failed and the file existing.
DataFromFile(module) ==
    /\ components = None
    /\ components' = Picked("DataLoader", module, "",
                            FirstDefined(data_func_names, module))
    /\ UNCHANGED <<domain_config, env_pc, attempts, outsideRes>>

\* _load_tasks(task_split), the import having failed and the file existing.
TasksFromFile(module, task_split) ==
    /\ components = None
    /\ components' = Picked("TaskList", module, task_split,
                            FirstDefined(task_var_names, module))
    /\ UNCHANGED <<domain_config, env_pc, attempts, outsideRes>>

\* The next environment is constructed.
NextConstruction ==
    /\ components # None
    /\ components' = None
    /\ UNCHANGED <<domain_config, env_pc, attempts, outsideRes>>

InitSymbols ==
    /\ ValidatorIdle
    /\ HashIdle
    /\ RegistryIdle
    /\ ResolverIdle
    /\ ToolsIdle
    /\ LoopIdle
    /\ LegacyIdle

NextSymbols ==
    \/ \E module \in DataSources : DataFromFile(module)
    \/ \E module \in TaskSources, task_split \in TaskSplits :
           TasksFromFile(module, task_split)
    \/ NextConstruction

SpecSymbols == InitSymbols /\ [][NextSymbols]_vars

\* ------------------------------------------------------------------------
\* SemanticValidator.__init__ (task_validation.py): the tool map
\* ------------------------------------------------------------------------
\* A tool class: its __name__ and the function name of its get_info(), both
\* as character sequences; info = <<>> stands for a get_info() that raises.
ToolClass(cls, info) == [t |-> "tool", cls |-> cls, info |-> info]

name_lookup == <<"l", "o", "o", "k", "u", "p">>
name_cancel == <<"c", "a", "n", "c", "e", "l", "_", "a", "p", "p", "t">>

ToolClasses ==
    { ToolClass(<<"L", "o", "o", "k", "u", "p">>, name_lookup),
      ToolClass(<<"P", "a", "t", "i", "e", "n", "t">>, name_lookup),
      ToolClass(<<"C", "a", "n", "c", "e", "l">>, name_cancel),
      ToolClass(<<"B", "r", "o", "k", "e", "n">>, <<>>) }

MaxTools == 3
ToolLists == UNION {[1..n -> ToolClasses] : n \in 0..MaxTools}

\* {tool.__name__.lower(): tool for tool in tools}
RECURSIVE ByClassName(_, _)
ByClassName(tool_list, map) ==
    IF tool_list = <<>> THEN map
    ELSE ByClassName(Tail(tool_list),
                     DictSet(map, PStr(lower(Head(tool_list).cls)), Head(tool_list)))

\* for tool in tools: self.tool_map[tool.get_info()['function']['name']] = tool,
\* a tool whose get_info() raises being skipped.
RECURSIVE ByFunctionName(_, _)
ByFunctionName(tool_list, map) ==
    IF tool_list = <<>> THEN map
    ELSE ByFunctionName(Tail(tool_list),
                        IF Head(tool_list).info = <<>> THEN map
                        ELSE DictSet(map, PStr(Head(tool_list).info), Head(tool_list)))

SemanticValidator_init(tool_list) ==
    ByFunctionName(tool_list, ByClassName(tool_list, PDict(<<>>)))

\* SemanticValidator(data, tools)
BuildToolMap ==
    /\ tool_map = None
    /\ tool_map' = SemanticValidator_init(tools)
    /\ UNCHANGED <<tools, outsideTools>>

\* The next SemanticValidator is given another list.
NewToolList(tool_list) ==
    /\ tool_map # None
    /\ tools' = tool_list
    /\ tool_map' = None
    /\ UNCHANGED outsideTools

InitTools ==
    /\ ValidatorIdle
    /\ HashIdle
    /\ RegistryIdle
    /\ ResolverIdle
    /\ ToolsIdle
    /\ LoopIdle
    /\ LegacyIdle

NextTools ==
    \/ BuildToolMap
    \/ \E tool_list \in ToolLists : NewToolList(tool_list)

SpecTools == InitTools /\ [][NextTools]_vars

\* ------------------------------------------------------------------------
\* task_validation.py: SyntacticValidator, SemanticValidator.validate_*,
\* TaskValidator.validate_task
\* ------------------------------------------------------------------------
name_CANCEL == <<"C", "A", "N", "C", "E", "L", "_", "A", "P", "P", "T">>
name_cancel_dash == <<"c", "a", "n", "c", "e", "l", "-", "a", "p", "p", "t">>
name_pass == <<"p", "a", "s", "s">>
name_refund == <<"r", "e", "f", "u", "n", "d">>

\* str.isidentifier(), on ASCII text
IdStartChars == Range(UpperChars) \cup Range(LowerChars) \cup {"_"}
isidentifier(text) ==
    /\ text # <<>>
    /\ text[1] \in IdStartChars
    /\ \A i \in DOMAIN text : text[i] \in IdStartChars \cup Range(DigitChar)

\* The keywords of Python among the names tried: "pass(**{...})" does not
\* parse as an expression.
kwlist == {name_pass, <<"i", "f">>}

\* validate_action_syntax(action)[0]: the name is an identifier and
\* "name(**{json of kwargs})" parses and compiles as an expression.
validate_action_syntax(action) ==
    isidentifier(action.name) /\ action.name \notin kwlist

\* validate_task_syntax(task): (len(errors) == 0, errors), an error being
\* kept as the index of its action.
RECURSIVE SyntaxErrors(_, _)
SyntaxErrors(actions, i) ==
    IF i > Len(actions) THEN <<>>
    ELSE (IF validate_action_syntax(actions[i]) THEN <<>> ELSE <<i>>)
         \o SyntaxErrors(actions, i + 1)
validate_task_syntax(t) ==
    [valid |-> SyntaxErrors(t.actions, 1) = <<>>,
     errors |-> SyntaxErrors(t.actions, 1)]

\* The lookup of validate_action_semantics: the exact name, else the first
\* key of tool_map equal to it when both are lowercased, else None.
RECURSIVE FirstIgnoringCase(_, _)
FirstIgnoringCase(items, name) ==
    IF items = <<>> THEN None
    ELSE IF lower(Head(items).k.s) = lower(name) THEN Head(items).v
    ELSE FirstIgnoringCase(Tail(items), name)
FindTool(map, name) ==
    IF DictHas(map, PStr(name)) THEN DictGet(map, PStr(name))
    ELSE FirstIgnoringCase(map.items, name)

\* tool_class.invoke(self.data, **action.kwargs): the tool declared as
\* cancel_appt cancels an appointment, every other tool only reads.
invoke(tool_class, data, kwargs) ==
    IF tool_class.info = name_cancel THEN CancelAppointment(data, kwargs)
    ELSE GetPatientInfo(data, kwargs)

\* validate_action_semantics(action): whether it is valid, the shared data
\* afterwards, the invocation made if any.
validate_action_semantics(map, data, action) ==
    LET tool_class == FindTool(map, action.name) IN
    IF tool_class = None
    THEN [valid |-> FALSE, data |-> data, made |-> <<>>]
    ELSE [valid |-> ~invoke(tool_class, data, action.kwargs).raised,
          data |-> invoke(tool_class, data, action.kwargs).data,
          made |-> <<[action |-> action, tool |-> tool_class,
                      raised |-> invoke(tool_class, data, action.kwargs).raised]>>]

\* The report of validate_task, with the bool returned next to it and the
\* local lists of validate_task_semantics while its loop runs.
Report(ret, syntactic, semantic, overall_valid) ==
    [t |-> "report", ret |-> ret, syntactic |-> syntactic,
     semantic |-> semantic, overall_valid |-> overall_valid,
     errors |-> <<>>, results |-> <<>>]

\* Longest task, in actions.
MaxTaskActions == 2

LegacyActions ==
    { Action(name_cancel, [appointment_id |-> "APT001"]),
      Action(name_CANCEL, [appointment_id |-> "APT002"]),
      Action(name_cancel, [id |-> "APT001"]),
      Action(name_lookup, [patient_id |-> "PAT001"]),
      Action(name_cancel_dash, [appointment_id |-> "APT002"]),
      Action(name_pass, [patient_id |-> "PAT001"]),
      Action(name_refund, [appointment_id |-> "APT001"]) }

LegacyTasks ==
    {Task(actions, <<>>) :
        actions \in UNION {[1..n -> LegacyActions] : n \in 0..MaxTaskActions}}

LegacyToolLists ==
    { <<ToolClass(<<"L", "o", "o", "k", "u", "p">>, name_lookup),
        ToolClass(<<"C", "a", "n", "c", "e", "l">>, name_cancel),
        ToolClass(<<"B", "r", "o", "k", "e", "n">>, <<>>)>>,
      <<ToolClass(<<"C", "a", "n", "c", "e", "l">>, name_cancel)>> }

\* TaskValidator(data, tools): data is load_data(), kept by reference.
InitLegacy ==
    /\ task = Task(<<>>, <<>>)
    /\ agent_actions = <<>>
    /\ heap = data_load_func(<<>>).heap
    /\ current_data = 1
    /\ pc = [c \in Calls |-> "idle"]
    /\ current_data_hash = [c \in Calls |-> None]
    /\ gt_data = [c \in Calls |-> 0]
    /\ syntactic_info = [c \in Calls |-> None]
    /\ semantic_info = [c \in Calls |-> None]
    /\ result = [c \in Calls |-> NoResult]
    /\ HashIdle
    /\ RegistryIdle
    /\ ResolverIdle
    /\ tools \in LegacyToolLists
    /\ tool_map = SemanticValidator_init(tools)
    /\ LoopIdle
    /\ LegacyIdle

NotRun == [valid |-> FALSE, errors |-> <<>>, results |-> <<>>]

\* A plausible slip: the semantic validation runs whatever the syntax.
ValidateTaskStart_ungated(t, skip) ==
    /\ legacy_pc = "idle"
    /\ task' = t
    /\ skip_semantics' = skip
    /\ idx' = 0
    /\ invoked' = <<>>
    /\ LET syntactic == validate_task_syntax(t) IN
       IF skip
       THEN /\ report' = Report(syntactic.valid, syntactic, NotRun, syntactic.valid)
            /\ legacy_pc' = "done"
       ELSE /\ report' = Report(None, syntactic, NotRun, FALSE)
            /\ legacy_pc' = "semantic"
    /\ UNCHANGED <<agent_actions, heap, current_data, pc, current_data_hash,
                   gt_data, syntactic_info, semantic_info, result, hashVars,
                   regVars, resVars, toolVars>>

\* validate_task(task, skip_semantics) up to the semantic validation.
ValidateTaskStart(t, skip) ==
    /\ legacy_pc = "idle"
    /\ task' = t
    /\ skip_semantics' = skip
    /\ idx' = 0
    /\ invoked' = <<>>
    /\ LET syntactic == validate_task_syntax(t) IN
       IF ~syntactic.valid
       THEN /\ report' = Report(FALSE, syntactic, NotRun, FALSE)
            /\ legacy_pc' = "done"
       ELSE IF skip
       THEN /\ report' = Report(TRUE, syntactic, NotRun, TRUE)
            /\ legacy_pc' = "done"
       ELSE /\ report' = Report(None, syntactic, NotRun, FALSE)
            /\ legacy_pc' = "semantic"
    /\ UNCHANGED <<agent_actions, heap, current_data, pc, current_data_hash,
                   gt_data, syntactic_info, semantic_info, result, hashVars,
                   regVars, resVars, toolVars>>

\* One turn of the loop of validate_task_semantics.
SemanticStep(checked) ==
    /\ heap' = [heap EXCEPT ![current_data] = checked.data]
    /\ invoked' = invoked \o checked.made
    /\ report' = [report EXCEPT
           !.errors = IF checked.valid THEN @ ELSE Append(@, idx + 1),
           !.results = Append(@, checked.valid)]
    /\ idx' = idx + 1

ValidateActionSemantics ==
    /\ legacy_pc = "semantic"
    /\ idx < Len(task.actions)
    /\ SemanticStep(validate_action_semantics(tool_map, heap[current_data],
                                              task.actions[idx + 1]))
    /\ UNCHANGED <<task, agent_actions, current_data, pc, current_data_hash,
                   gt_data, syntactic_info, semantic_info, result, hashVars,
                   regVars, resVars, toolVars, skip_semantics, legacy_pc>>

\* The loop is over: the semantic part of the report, overall_valid, return.
ValidateTaskEnd ==
    /\ legacy_pc = "semantic"
    /\ idx = Len(task.actions)
    /\ report' = [report EXCEPT
           !.semantic = [valid |-> report.errors = <<>>,
                         errors |-> report.errors,
                         results |-> report.results],
           !.overall_valid = report.syntactic.valid /\ report.errors = <<>>,
           !.ret = report.syntactic.valid /\ report.errors = <<>>]
    /\ legacy_pc' = "done"
    /\ UNCHANGED <<valVars, hashVars, regVars, resVars, toolVars, loopVars,
                   skip_semantics>>

\* validate_task has returned: its frame is gone, the shared data stay as
\* the tools left them for the next task.
NextTask ==
    /\ legacy_pc = "done"
    /\ legacy_pc' = "idle"
    /\ report' = None
    /\ task' = Task(<<>>, <<>>)
    /\ skip_semantics' = FALSE
    /\ idx' = 0
    /\ invoked' = <<>>
    /\ UNCHANGED <<agent_actions, heap, current_data, pc, current_data_hash,
                   gt_data, syntactic_info, semantic_info, result, hashVars,
                   regVars, resVars, toolVars>>

NextLegacy ==
    \/ \E t \in LegacyTasks, skip \in BOOLEAN : ValidateTaskStart(t, skip)
    \/ ValidateActionSemantics
    \/ ValidateTaskEnd
    \/ NextTask

SpecLegacy == InitLegacy /\ [][NextLegacy]_vars

\* ------------------------------------------------------------------------
\* Properties
\* ------------------------------------------------------------------------
Returned(c) == result[c].kind = "return"

\* An expected output is found when some respond action of the agent that
\* carries a content contains it.
FoundSomewhere(f) ==
    \E i \in DOMAIN agent_actions :
        /\ agent_actions[i].name = RESPOND_ACTION_NAME
        /\ "content" \in DOMAIN agent_actions[i].kwargs
        /\ OutputInContent(f, agent_actions[i].kwargs.content)
AllFound == \A i \in DOMAIN task.outputs : FoundSomewhere(task.outputs[i])

\* C1: validate_task returns reward 1.0 exactly when the hash of the agent's
\* snapshot equals the hash of the replayed ground-truth snapshot and the
\* semantic channel reports r_outputs = 1.0; otherwise it returns 0.0.
C1_RewardIffBothChannels ==
    \A c \in Calls :
        Returned(c) =>
            /\ result[c].reward \in {0, 1}
            /\ result[c].reward = 1 <=>
                   /\ current_data_hash[c] = syntactic_info[c].gt_data_hash
                   /\ semantic_info[c].r_outputs = 1

C1_Witness ==
    \E c \in Calls :
        /\ Returned(c) /\ result[c].reward = 1
        /\ task.outputs # <<>>
        /\ heap[gt_data[c]] # load_data

\* C2: whatever order the keys of the dicts and the elements of the sets of
\* a snapshot are presented in, at any depth, to_hashable gives the same
\* canonical form and consistent_hash the same hash as for the original.
C2_OrderIndependent == hout # None => hout = Canonical(hx0)

C2_Witness ==
    /\ hout # None /\ hout = Canonical(hx)
    /\ hout.hash.t = "digest"
    /\ hx.items # hx0.items
    /\ \E i \in DOMAIN hx.items : hx.items[i] \notin Range(hx0.items)

\* C3: two replays of the same task, each on its own snapshot from
\* data_load_func, end with equal gt_data_hash values.
C3_ReplayIdempotent ==
    \A c1, c2 \in Calls :
        /\ syntactic_info[c1].t = "RewardActionInfo"
        /\ syntactic_info[c2].t = "RewardActionInfo"
        => syntactic_info[c1].gt_data_hash = syntactic_info[c2].gt_data_hash

C3_Witness ==
    \E c1, c2 \in Calls :
        /\ c1 # c2
        /\ syntactic_info[c1].t = "RewardActionInfo"
        /\ syntactic_info[c2].t = "RewardActionInfo"
        /\ heap[gt_data[c1]] # load_data

\* C4: no step of validate_task changes the snapshot handed in as
\* current_data; a snapshot changed by such a step is the ground-truth
\* snapshot of a call about to replay, obtained from data_load_func.
C4_CurrentDataUntouched ==
    [][agent_actions' = agent_actions =>
          /\ current_data' = current_data
          /\ heap'[current_data] = heap[current_data]
          /\ \A r \in DOMAIN heap :
                 heap'[r] # heap[r] =>
                     \E c \in Calls :
                         pc[c] = "loaded" /\ gt_data[c] = r /\ r # current_data]_vars

C4_Witness ==
    \E c \in Calls :
        /\ Returned(c)
        /\ heap[gt_data[c]] # load_data
        /\ heap[current_data] = load_data

\* C5: validate_semantic reports r_outputs = 1.0 exactly when every expected
\* output is found in some respond action of the agent; its outputs map has
\* one entry per expected output telling whether it was found; with no
\* expected outputs it passes with an empty map.
C5_SemanticChannel ==
    \A c \in Calls :
        semantic_info[c].t = "RewardOutputInfo" =>
            /\ semantic_info[c].r_outputs = 1 <=> AllFound
            /\ DOMAIN semantic_info[c].outputs = Range(task.outputs)
            /\ \A f \in Range(task.outputs) :
                   semantic_info[c].outputs[f] = FoundSomewhere(f)
            /\ task.outputs = <<>> =>
                   semantic_info[c].r_outputs = 1

C5_Witness ==
    \E c \in Calls :
        /\ semantic_info[c].t = "RewardOutputInfo"
        /\ Len(task.outputs) = 2
        /\ \E f \in Range(task.outputs) : semantic_info[c].outputs[f]
        /\ \E f \in Range(task.outputs) : ~semantic_info[c].outputs[f]
        /\ semantic_info[c].r_outputs = 0

\* The matching rule stated on characters: some window of the content with
\* its commas dropped equals the expected output up to letter case.
SameLetter(a, b) == LowerChar(a) = LowerChar(b)
MatchesAt(f, w, a) == \A k \in DOMAIN f : SameLetter(w[a + k - 1], f[k])
Matches(f, w) == \E a \in 1..(Len(w) - Len(f) + 1) : MatchesAt(f, w, a)
MatchesContent(f, content) == Matches(f, SelectSeq(content, NotComma))

MatchedSomewhere(f) ==
    \E i \in DOMAIN agent_actions :
        /\ agent_actions[i].name = RESPOND_ACTION_NAME
        /\ "content" \in DOMAIN agent_actions[i].kwargs
        /\ MatchesContent(f, agent_actions[i].kwargs.content)

\* C6: an expected output is reported found exactly when, ignoring letter
\* case and the commas of the content, it occurs in the content of a respond
\* action; "SUCCESS" is found in "task completed, success!" and is not found
\* in "succes".
C6_CaseAndCommaInsensitive ==
    \A c \in Calls :
        semantic_info[c].t = "RewardOutputInfo" =>
            /\ \A f \in DOMAIN semantic_info[c].outputs :
                   semantic_info[c].outputs[f] <=> MatchedSomewhere(f)
            /\ txt_SUCCESS \in DOMAIN semantic_info[c].outputs =>
                   /\ agent_actions = <<act_respond(txt_task_completed)>> =>
                          semantic_info[c].outputs[txt_SUCCESS]
                   /\ agent_actions = <<act_respond(txt_succes)>> =>
                          ~semantic_info[c].outputs[txt_SUCCESS]

C6_Witness ==
    \E c \in Calls :
        /\ semantic_info[c].t = "RewardOutputInfo"
        /\ agent_actions = <<act_respond(txt_task_completed), act_respond(txt_total)>>
        /\ txt_SUCCESS \in DOMAIN semantic_info[c].outputs
        /\ semantic_info[c].outputs[txt_SUCCESS]
        /\ semantic_info[c].outputs[txt_1000]

\* C7 as claimed: with a non-empty outputs list the reward is 1.0 exactly
\* when every expected output is found, whatever the hash comparison says.
C7_GatedBySemanticOnly ==
    \A c \in Calls :
        Returned(c) /\ task.outputs # <<>> =>
            (result[c].reward = 1 <=> AllFound)

\* C7 as amended: with a non-empty outputs list the reward is 1.0 exactly
\* when every expected output is found and the syntactic hash comparison
\* matches; a mismatch gives 0.0 even when every expected output is found.
C7_GatedByBothChannels ==
    \A c \in Calls :
        Returned(c) /\ task.outputs # <<>> =>
            /\ result[c].reward = 1 <=> (AllFound /\ syntactic_info[c].r_actions)
            /\ ~syntactic_info[c].r_actions => result[c].reward = 0

C7_Witness ==
    \E c \in Calls :
        /\ Returned(c) /\ task.outputs # <<>>
        /\ AllFound /\ ~syntactic_info[c].r_actions
        /\ result[c].reward = 0

\* C8: a task without expected outputs whose ground-truth actions the agent
\* applied, in order, to a freshly loaded snapshot is reported with
\* r_actions = true and reward 1.0.
C8_SameActionsPass ==
    \A c \in Calls :
        Returned(c) /\ task.outputs = <<>> /\ agent_actions = task.actions =>
            /\ result[c].info.t = "RewardActionInfo"
            /\ result[c].info.r_actions
            /\ result[c].reward = 1

C8_Witness ==
    \E c \in Calls :
        /\ Returned(c) /\ task.outputs = <<>> /\ agent_actions = task.actions
        /\ Len(task.actions) = 2
        /\ heap[current_data] # load_data
        /\ result[c].reward = 1

\* The agent's trace is the ground-truth actions preceded by other actions
\* that left its snapshot different from a freshly loaded one.
RECURSIVE ApplyAll(_, _)
ApplyAll(actions, data) ==
    IF actions = <<>> THEN data
    ELSE ApplyAll(Tail(actions), EnvApply(Head(actions), data))

\* The entries (section, key) of a snapshot, and those on which two
\* snapshots disagree.
EntryKeys(data) ==
    UNION {{<<data.items[i].k, data.items[i].v.items[j].k>> :
                j \in DOMAIN data.items[i].v.items} : i \in DOMAIN data.items}
EntryOf(data, e) == DictGet(DictGet(data, e[1]), e[2])
Touched(before, after) ==
    {e \in EntryKeys(before) \cup EntryKeys(after) :
        \/ e \notin EntryKeys(before)
        \/ e \notin EntryKeys(after)
        \/ EntryOf(before, e) # EntryOf(after, e)}

\* The snapshot the agent performed the ground-truth actions on: the trace
\* is the ground-truth actions preceded by at least one other action.
PriorLen == Len(agent_actions) - Len(task.actions)
PriorData == ApplyAll(SubSeq(agent_actions, 1, PriorLen), load_data)

\* That snapshot already differed from a freshly loaded one through a
\* mutation unrelated to the task: no entry it changed is an entry the
\* ground-truth replay of call c changes.
PriorUnrelatedMutation(c) ==
    /\ PriorLen >= 1
    /\ SubSeq(agent_actions, PriorLen + 1, Len(agent_actions)) = task.actions
    /\ Touched(load_data, PriorData) # {}
    /\ Touched(load_data, PriorData) \cap Touched(load_data, heap[gt_data[c]]) = {}

\* C9: when the agent performed the ground-truth actions on a snapshot that
\* already differed from the freshly loaded one through a prior unrelated
\* mutation, the two hashes differ, r_actions is false and the reward is 0.0.
C9_PriorMutationFails ==
    \A c \in Calls :
        Returned(c) /\ PriorUnrelatedMutation(c) =>
            /\ current_data_hash[c] # syntactic_info[c].gt_data_hash
            /\ ~syntactic_info[c].r_actions
            /\ result[c].reward = 0

C9_Witness ==
    \E c \in Calls :
        /\ Returned(c) /\ PriorUnrelatedMutation(c)
        /\ Touched(load_data, heap[gt_data[c]]) # {}
        /\ ~syntactic_info[c].r_actions
        /\ result[c].reward = 0

\* C10: an internal error during validate_task ends the call with a returned
\* result (reward 0.0 and an error note), never with an exception raised to
\* the caller.
C10_ErrorsAreReported ==
    \A c \in Calls : pc[c] = "done" => result[c].kind = "return"

\* What one validate_task call returns when nothing else runs: the hash of
\* the snapshot handed in, the hash of a replay on a fresh load, the semantic
\* channel, combined.
AloneWith(cur, gt, sem) ==
    IF IsRaise(cur) THEN Raised(cur)
    ELSE IF IsRaise(gt) THEN Raised(gt)
    ELSE IF IsRaise(sem) THEN Raised(sem)
    ELSE RewardResult(task, RewardActionInfo(cur = gt, gt), sem)

Alone ==
    AloneWith(get_data_hash(heap[current_data]),
              get_data_hash(replay(task.actions, load_data)),
              validate_semantic(task, agent_actions))

Entered(c) == pc[c] \in {"loaded", "replayed"} \/ Returned(c)

OwnSnapshots ==
    \A c \in Calls :
        Entered(c) =>
            /\ gt_data[c] \in DOMAIN heap
            /\ gt_data[c] # current_data
            /\ \A d \in Calls : d # c /\ Entered(d) => gt_data[d] # gt_data[c]

\* C11: concurrent validate_task calls do not interfere: every call that
\* entered replays on a snapshot of its own, different from the agent's and
\* from every other call's; a replay changes the snapshot of its own call
\* only and leaves a fresh load until then; and every call returns the
\* result it would have when run alone, which stays its result.
C11_NoInterference ==
    /\ []OwnSnapshots
    /\ [][\A c \in Calls :
              /\ pc[c] # "done" /\ pc'[c] = "done" => result'[c] = Alone
              /\ pc[c] = "done" /\ pc'[c] = "done" => result'[c] = result[c]
              /\ pc[c] = "loaded" => heap[gt_data[c]] = load_data
              /\ pc[c] = "loaded" /\ pc'[c] = "replayed" =>
                     \A r \in DOMAIN heap :
                         r # gt_data[c] => heap'[r] = heap[r]]_vars

\* Two calls in flight at once on a task whose replay changes the snapshot,
\* one of them returned while the other is still between load and hash.
C11_Witness ==
    \E c, d \in Calls :
        /\ c # d
        /\ Returned(c) /\ pc[d] \in {"loaded", "replayed"}
        /\ heap[gt_data[c]] # load_data
        /\ result[c] = Alone

\* C12: the digest of a snapshot depends on its content only: a second
\* process run, which lays the same content out in another iteration order
\* and at other memory addresses, computes the digest of the first run.
C12_SameDigestEveryRun ==
    hout # None => hout.hash = get_data_hash(hx0)

\* C20: canonicalizing a snapshot that holds an opaque object raises
\* CanonicalizationError; no digest is returned for it.
C20_OpaqueIsRejected ==
    hout # None /\ HasObject(hx) =>
        /\ IsRaise(hout.canon) /\ hout.canon.exc = "CanonicalizationError"
        /\ IsRaise(hout.hash) /\ hout.hash.exc = "CanonicalizationError"

\* ------------------------------------------------------------------------
\* The registry used by several threads: register_domain has no lock, so a
\* thread can be preempted between its two statements; a dict store and a
\* dict lookup are each one step
\* ------------------------------------------------------------------------
\* The registrations the threads make: what load_domain_from_file passes to
\* register_domain for three of the descriptor files.
ThreadFiles == {FileSystem[i].path : i \in {1, 4, 5}}
ThreadCalls ==
    {[config |-> Validate(DocOf(f), f), config_path |-> f] : f \in ThreadFiles}

\* register_domain line 67, by thread th.
RegisterStore(th, call) ==
    /\ rpc[th] = "idle"
    /\ SetRegistry(store_domain(Registry(domains, domain_paths), call.config))
    /\ rarg' = [rarg EXCEPT ![th] = call]
    /\ rpc' = [rpc EXCEPT ![th] = "stored"]
    /\ UNCHANGED <<outsideReg, op>>

\* register_domain lines 68-69, by thread th.
RegisterPath(th) ==
    /\ rpc[th] = "stored"
    /\ SetRegistry(store_path(Registry(domains, domain_paths),
                              rarg[th].config, rarg[th].config_path))
    /\ rpc' = [rpc EXCEPT ![th] = "done"]
    /\ UNCHANGED <<outsideReg, op, rarg>>

\* A reader thread: get_domain(name) or list_domains().
GetDomain(name) ==
    /\ op' = Op("get_domain", PStr(name), get_domain(name), <<>>)
    /\ UNCHANGED <<outsideReg, domains, domain_paths, rpc, rarg>>

ListDomains ==
    /\ op' = Op("list_domains", None,
                PList([i \in DOMAIN list_domains |-> PStr(list_domains[i])]), <<>>)
    /\ UNCHANGED <<outsideReg, domains, domain_paths, rpc, rarg>>

NextThreads ==
    \/ \E th \in Threads, call \in ThreadCalls : RegisterStore(th, call)
    \/ \E th \in Threads : RegisterPath(th)
    \/ \E name \in {"retail", "healthcare"} : GetDomain(name)
    \/ ListDomains

SpecThreads == InitReg /\ [][NextThreads]_vars

\* ------------------------------------------------------------------------
\* Properties of the registry
\* ------------------------------------------------------------------------
Names ==
    {"retail", "healthcare", "custom", "notes", "test_registry", "non_existent"}

\* The descriptors a call registered, in order: its argument, the config it
\* returned, or the list it returned.
Registered(o) ==
    IF o.t = "register_domain" THEN <<o.arg>>
    ELSE IF o.t = "load_domain_from_file"
    THEN (IF IsRaise(o.ret) THEN <<>> ELSE <<o.ret>>)
    ELSE IF o.t = "discover_domains" THEN o.ret.items
    ELSE <<>>

Under(seq, name) == {i \in DOMAIN seq : seq[i].name = name}
LastUnder(seq, name) ==
    IF Under(seq, name) = {} THEN None
    ELSE seq[CHOOSE i \in Under(seq, name) : \A j \in Under(seq, name) : j <= i]

\* C13: the registry starts empty; after every register_domain,
\* load_domain_from_file or discover_domains call it holds at most one
\* descriptor per name, get_domain(name) is the descriptor registered last
\* under that name (by this call, or else as before the call, None when
\* never registered), and every name listed before is still listed.
C13_OnePerNameLatestWins ==
    /\ \A name \in Names : get_domain(name) = None
    /\ [][/\ \A i, j \in DOMAIN domains'.items :
                 i # j => domains'.items[i].k # domains'.items[j].k
          /\ \A name \in Names :
                 get_domain(name)' =
                     IF LastUnder(Registered(op'), name) # None
                     THEN LastUnder(Registered(op'), name)
                     ELSE get_domain(name)
          /\ \A i \in DOMAIN list_domains : list_domains[i] \in Range(list_domains')]_vars

\* A scan registered retail several times and then it was registered anew,
\* next to a name registered before the scan.
C13_Witness ==
    /\ op.t = "register_domain"
    /\ get_domain("retail") = DomainConfig("retail", "3.0.0")
    /\ get_domain("healthcare") # None
    /\ get_domain("test_registry") # None
    /\ get_domain("non_existent") = None
    /\ list_domains[1] = "test_registry"

\* What the error names of the registry contract stand for in this code.
DescriptorNotFoundError == {"FileNotFoundError"}
DescriptorFormatError == {"ValueError", "ValidationError", "YAMLError", "JSONDecodeError"}

SchemaViolation(path) ==
    \/ suffix_lower(path) \notin {".yaml", ".yml", ".json"}
    \/ ~DocOf(path).complete

\* C14: load_domain_from_file raises the not-found error for a location that
\* does not exist and a format error for a document that violates the
\* schema, leaving both maps of the registry as they were; otherwise it
\* returns the descriptor, registered under its name with the location as
\* its origin.
C14_LoadFromFile ==
    [][op'.t = "load_domain_from_file" =>
          /\ ~exists(op'.arg) =>
                 IsRaise(op'.ret) /\ op'.ret.exc \in DescriptorNotFoundError
          /\ exists(op'.arg) /\ SchemaViolation(op'.arg) =>
                 IsRaise(op'.ret) /\ op'.ret.exc \in DescriptorFormatError
          /\ IsRaise(op'.ret) =>
                 domains' = domains /\ domain_paths' = domain_paths
          /\ ~IsRaise(op'.ret) =>
                 /\ exists(op'.arg) /\ ~SchemaViolation(op'.arg)
                 /\ op'.ret.name = DocOf(op'.arg).name
                 /\ dict_get(domains', op'.ret.name) = op'.ret
                 /\ DictGet(domain_paths', PStr(op'.ret.name)) = op'.arg]_vars

\* A failed load on a registry that already holds descriptors.
C14_Witness ==
    /\ op.t = "load_domain_from_file"
    /\ IsRaise(op.ret) /\ op.ret.exc = "ValidationError"
    /\ get_domain("retail") # None
    /\ DictHas(domain_paths, PStr("retail"))

\* The files below a directory that discovery looks at, and those of them
\* that load.
Conventional(domains_dir) ==
    rglob(domains_dir, ".yaml") \cup rglob(domains_dir, ".yml")
        \cup rglob(domains_dir, ".json")
WellFormed(domains_dir) == {f \in Conventional(domains_dir) : ~SchemaViolation(f)}

\* C15: discover_domains raises nothing; it returns one descriptor for each
\* well-formed descriptor file under the root and no other, each of them
\* registered, and prints one warning for each malformed file, in whatever
\* order the files are visited.
C15_DiscoverySkipsBadFiles ==
    [][op'.t = "discover_domains" =>
          /\ ~IsRaise(op'.ret)
          /\ Len(op'.ret.items) = Cardinality(WellFormed(op'.arg))
          /\ {op'.ret.items[i].config_path : i \in DOMAIN op'.ret.items}
                 = WellFormed(op'.arg)
          /\ \A i \in DOMAIN op'.ret.items :
                 /\ op'.ret.items[i].name = DocOf(op'.ret.items[i].config_path).name
                 /\ dict_get(domains', op'.ret.items[i].name) \in Range(op'.ret.items)
          /\ Len(op'.warnings) =
                 Cardinality(Conventional(op'.arg) \ WellFormed(op'.arg))
          /\ Range(op'.warnings) = Conventional(op'.arg) \ WellFormed(op'.arg)]_vars

\* A scan that met a malformed file and loaded well-formed ones after it.
C15_Witness ==
    /\ op.t = "discover_domains"
    /\ Len(op.warnings) = 2
    /\ Len(op.ret.items) = 4
    /\ get_domain("healthcare") # None
    /\ get_domain("retail").version = "2.0.0"

\* C16: under any interleaving of registering and reading threads, a reader
\* gets for a name nothing or a descriptor that a registration call passed
\* in, and once no thread is inside register_domain, the descriptor and the
\* origin location stored under a name come from one and the same call.
C16_RegistrationsSerialized ==
    /\ op.t = "get_domain" /\ op.ret # None =>
           \E th \in Threads : rarg[th] # None /\ rarg[th].config = op.ret
    /\ (\A th \in Threads : rpc[th] # "stored") =>
           \A i \in DOMAIN domains.items :
               \E th \in Threads :
                   /\ rpc[th] = "done"
                   /\ rarg[th].config = domains.items[i].v
                   /\ dict_get(domain_paths, domains.items[i].k.s) = rarg[th].config_path

\* ------------------------------------------------------------------------
\* Properties of the resolver
\* ------------------------------------------------------------------------
ToolConfigNamed(name) ==
    domain_config.tools[CHOOSE i \in DOMAIN domain_config.tools :
                            domain_config.tools[i].name = name]

\* The ref an attempt was made for.
RefOf(a) ==
    IF a.kind = "DataLoader" THEN domain_config.data_loader
    ELSE IF a.kind = "TaskList" THEN domain_config.task_splits["test"]
    ELSE IF a.kind = "RulesList" THEN domain_config.rules_file
    ELSE IF a.kind = "WikiText" THEN domain_config.wiki_file
    ELSE ToolConfigNamed(a.name).ref

SameTarget(a, b) ==
    a.kind = b.kind /\ (a.kind = "ToolClass" => a.name = b.name)

\* A file-location attempt is made only for a ref that symbolic-path
\* resolution did not resolve, and after that was tried.
FileOnlyAfterSymbolic(i) ==
    attempts[i].strategy = "file" =>
        /\ RefOf(attempts[i]).sym # "found"
        /\ \E j \in 1..(i - 1) :
               attempts[j].strategy = "symbolic" /\ SameTarget(attempts[j], attempts[i])

\* The components bound so far, tools one by one.
BoundSoFar ==
    IF components = None THEN {}
    ELSE ({components.data_load_func, components.tasks, components.wiki,
           components.rules} \ {None})
         \cup (IF components.tools = None THEN {} ELSE Range(components.tools.items))

SymbolicWins(b) == RefOf(b).sym = "found" => b.by = "symbolic"

\* C17 as stated, for every component kind: a ref that symbolic-path
\* resolution resolves is bound to that value, and file-location resolution
\* is attempted only after symbolic-path resolution failed for the ref.
C17_SymbolicFirstEveryKind ==
    /\ \A i \in DOMAIN attempts : FileOnlyAfterSymbolic(i)
    /\ \A b \in BoundSoFar : SymbolicWins(b)

\* C17, amended: the same for the kinds DataLoader, ToolClass, TaskList and
\* RulesList (for WikiText the file locations come first).
C17_SymbolicFirstButWiki ==
    /\ \A i \in DOMAIN attempts :
           attempts[i].kind # "WikiText" => FileOnlyAfterSymbolic(i)
    /\ \A b \in BoundSoFar : b.kind # "WikiText" => SymbolicWins(b)

\* An environment built with rules that both strategies resolve, bound by
\* the import, and with tasks that only the file resolves.
C17_Witness ==
    /\ env_pc = "done"
    /\ domain_config.rules_file = Ref("found", "found")
    /\ components.rules.by = "symbolic"
    /\ components.tasks.by = "file"
    /\ \E i \in DOMAIN attempts :
           attempts[i].kind = "ToolClass" /\ attempts[i].strategy = "file"

\* Every strategy for the component fails.
ExhaustedRef(ref) == ref.sym # "found" /\ ref.file # "found"
ExhaustedWiki ==
    /\ domain_config.wiki_file.sym # "found"
    /\ \/ domain_config.wiki_file.at = "absent"
       \/ domain_config.wiki_file.at # "base" /\ domain_config.config_path = None

After(loader) ==
    env_pc \in (CASE loader = "data" -> {"tools", "tasks", "wiki", "rules", "done"}
                  [] loader = "tools" -> {"tasks", "wiki", "rules", "done"}
                  [] loader = "tasks" -> {"wiki", "rules", "done"}
                  [] loader = "wiki" -> {"rules", "done"}
                  [] OTHER -> {"done"})

\* C18: a loader whose strategies are all exhausted fails with an error;
\* the construction never goes on past it, so every loader that returned
\* has bound its component, each configured tool included.
C18_ExhaustedIsAnError ==
    /\ After("data") =>
           ~ExhaustedRef(domain_config.data_loader) /\ components.data_load_func # None
    /\ After("tools") =>
           /\ \A i \in DOMAIN domain_config.tools :
                  ~ExhaustedRef(domain_config.tools[i].ref)
           /\ Len(components.tools.items) = Len(domain_config.tools)
    /\ After("tasks") =>
           ~ExhaustedRef(domain_config.task_splits["test"]) /\ components.tasks # None
    /\ After("wiki") => ~ExhaustedWiki /\ components.wiki # None
    /\ After("rules") =>
           ~ExhaustedRef(domain_config.rules_file) /\ components.rules # None

\* Two tools of the list declare the same invocation name.
DuplicateNames(tool_list) ==
    \E i, j \in DOMAIN tool_list :
        i # j /\ tool_list[i].info # <<>> /\ tool_list[i].info = tool_list[j].info

\* C19: building the tool map from a list in which two tools declare the
\* same invocation name raises DuplicateToolNameError; no map is built in
\* which one of the two stands under the name.
C19_DuplicateNamesRejected ==
    tool_map # None /\ DuplicateNames(tools) =>
        /\ IsRaise(tool_map)
        /\ tool_map.exc = "DuplicateToolNameError"

\* ------------------------------------------------------------------------
\* Properties of the replay loop
\* ------------------------------------------------------------------------
\* The action names a tool of tools_map that is not a terminal tool.
NamesPlainTool(action) == action.name \in ToolNames \ terminate_tools

InvokedActions == [i \in DOMAIN invoked |-> invoked[i].action]

\* C21: during replay a tool is invoked for an action iff the action names
\* a tool of tools_map that is not terminal; any other action leaves the
\* ground-truth snapshot as it is; no action ends the loop early; and the
\* invocations are made in the order of task.actions.
C21_InvokedIffPlainTool ==
    /\ [](Entered(1) =>
            /\ InvokedActions
                 = SelectSeq(SubSeq(task.actions, 1, idx), NamesPlainTool)
            /\ pc[1] # "loaded" =>
                 /\ idx = Len(task.actions)
                 /\ heap[gt_data[1]] = replay(task.actions, load_data))
    /\ [][idx' = idx + 1 =>
            LET action == task.actions[idx']
                before == heap[gt_data[1]]
                after == heap'[gt_data[1]] IN
            /\ pc'[1] = "loaded"
            /\ NamesPlainTool(action) =>
                 /\ Len(invoked') = Len(invoked) + 1
                 /\ after = tools_map_invoke(action.name, before, action.kwargs).data
            /\ ~NamesPlainTool(action) =>
                 /\ invoked' = invoked
                 /\ after = before]_vars

\* The loop is over for a task with a terminal tool, an unknown name and a
\* respond action around one tool call, which changed the snapshot.
C21_Witness ==
    /\ pc[1] = "replayed"
    /\ \E i, j, k \in DOMAIN task.actions :
           /\ task.actions[i].name \in terminate_tools
           /\ task.actions[j].name \notin ToolNames \cup {RESPOND_ACTION_NAME}
           /\ task.actions[k].name = RESPOND_ACTION_NAME
    /\ Len(invoked) = 1
    /\ heap[gt_data[1]] # load_data

SomeRaised == \E i \in DOMAIN invoked : invoked[i].raised

\* C22: an exception of a tool invocation during replay is swallowed: the
\* loop goes on with the next action, every later action is executed, and
\* validate_syntactic returns a RewardActionInfo whose r_actions compares
\* the two snapshots as they then are.
C22_ToolExceptionSwallowed ==
    /\ [](SomeRaised =>
            /\ result[1].kind # "raise"
            /\ pc[1] \in {"replayed", "done"} =>
                 InvokedActions = SelectSeq(task.actions, NamesPlainTool)
            /\ pc[1] = "done" =>
                 /\ Returned(1)
                 /\ syntactic_info[1].t = "RewardActionInfo"
                 /\ syntactic_info[1].r_actions
                      = (get_data_hash(heap[current_data])
                           = get_data_hash(heap[gt_data[1]])))
    /\ [][idx' = idx + 1 /\ Len(invoked') > Len(invoked)
            /\ invoked'[Len(invoked')].raised =>
                 pc'[1] = "loaded"]_vars

\* A call returned r_actions = True although its first invocation raised:
\* the later action was replayed and the agent had made the same change.
C22_Witness ==
    /\ Returned(1)
    /\ Len(invoked) > 1
    /\ invoked[1].raised
    /\ ~invoked[Len(invoked)].raised
    /\ heap[gt_data[1]] # load_data
    /\ syntactic_info[1].r_actions

\* ------------------------------------------------------------------------
\* Properties of the encoder on two snapshots
\* ------------------------------------------------------------------------
Compared(edit) == hout # None /\ hout.t = "compared" /\ hout.edit = edit

Told == /\ hout.first.canon # hout.second.canon
        /\ hout.first.hash # hout.second.hash
        /\ ~hout.r_actions

\* C23: list order is kept by the canonical form: two snapshots that differ
\* only in the order of different elements of one list have different
\* canonical forms and different hashes, and the syntactic comparison fails.
C23_ListOrderTold == Compared("reordered") => Told

\* C28: the canonical form tells structure: two snapshots of which one has a
\* list where the other has a dict (the list of its [key, value] pairs) or a
\* set (the list of its elements) have different canonical forms and
\* different hashes, and the syntactic comparison fails.
C28_StructureTold == Compared("restructured") => Told

\* ------------------------------------------------------------------------
\* Properties of the file half of the loaders
\* ------------------------------------------------------------------------
PickedFrom(kind) == components # None /\ components.kind = kind

Defines(name) == \E i \in DOMAIN components.module : components.module[i] = name

Returns(name) == components.ret = Attr(name)

\* C24: from a file, the data loader is the first of load_data, load,
\* get_data that the source defines, and the task list is the first of
\* TASKS, TASKS_TEST, TASKS_TRAIN, TASKS_DEV, tasks that it defines,
\* whatever the split asked for and the order of the definitions.
C24_FixedPriority ==
    /\ PickedFrom("DataLoader") =>
         IF Defines("load_data") THEN Returns("load_data")
         ELSE IF Defines("load") THEN Returns("load")
         ELSE IF Defines("get_data") THEN Returns("get_data")
         ELSE IsRaise(components.ret)
    /\ PickedFrom("TaskList") =>
         IF Defines("TASKS") THEN Returns("TASKS")
         ELSE IF Defines("TASKS_TEST") THEN Returns("TASKS_TEST")
         ELSE IF Defines("TASKS_TRAIN") THEN Returns("TASKS_TRAIN")
         ELSE IF Defines("TASKS_DEV") THEN Returns("TASKS_DEV")
         ELSE IF Defines("tasks") THEN Returns("tasks")
         ELSE IsRaise(components.ret)

\* The split asked for is "test"; the source defines TASKS_TEST and, after
\* it, TASKS; TASKS is returned.
C24_Witness ==
    /\ PickedFrom("TaskList")
    /\ components.split = "test"
    /\ components.module = <<"TASKS_TEST", "TASKS">>
    /\ Returns("TASKS")

\* ------------------------------------------------------------------------
\* Properties of what validate_task returns
\* ------------------------------------------------------------------------
RECURSIVE WithoutRespond(_)
WithoutRespond(actions) ==
    IF actions = <<>> THEN <<>>
    ELSE IF Head(actions).name = "respond" THEN WithoutRespond(Tail(actions))
    ELSE <<Head(actions)>> \o WithoutRespond(Tail(actions))

\* C25: the info of the result is the RewardOutputInfo of the semantic
\* channel exactly when the task declares outputs and the RewardActionInfo
\* of the syntactic channel, with gt_data_hash, exactly when it declares
\* none; the actions of the result are task.actions without the respond
\* actions, in order.
C25_InfoByOutputs ==
    \A c \in Calls :
        Returned(c) =>
            /\ task.outputs # <<>> =>
                 /\ result[c].info.t = "RewardOutputInfo"
                 /\ result[c].info = semantic_info[c]
                 /\ DOMAIN result[c].info.outputs = Range(task.outputs)
            /\ task.outputs = <<>> =>
                 /\ result[c].info.t = "RewardActionInfo"
                 /\ result[c].info = syntactic_info[c]
                 /\ result[c].info.gt_data_hash.t = "digest"
            /\ result[c].actions = WithoutRespond(task.actions)

\* A call returned for a task that declares outputs and has a respond
\* action among its actions, the syntactic channel having passed.
C25_Witness ==
    \E c \in Calls :
        /\ Returned(c)
        /\ syntactic_info[c].r_actions
        /\ task.outputs # <<>>
        /\ Len(result[c].actions) < Len(task.actions)
        /\ Len(result[c].actions) > 1

HasComma(text) == \E i \in DOMAIN text : text[i] = ","

\* C29: the commas are stripped from the respond content only: an expected
\* output that contains a comma is found in no respond action, and a task
\* that declares one gets r_outputs = 0.0 and reward 0.0 whatever the agent
\* did.
C29_CommaFragmentNeverFound ==
    \A c \in Calls :
        pc[c] = "done" /\ (\E i \in DOMAIN task.outputs : HasComma(task.outputs[i])) =>
            /\ Returned(c)
            /\ \A i \in DOMAIN task.outputs :
                   HasComma(task.outputs[i]) =>
                       ~semantic_info[c].outputs[task.outputs[i]]
            /\ semantic_info[c].r_outputs = 0
            /\ result[c].reward = 0

\* The agent left the snapshot as the task does and responded with the
\* expected outputs word for word, "1,000" among them: reward 0.0.
C29_Witness ==
    \E c \in Calls :
        /\ Returned(c)
        /\ task.outputs = <<txt_SUCCESS, txt_1c000>>
        /\ \E i \in DOMAIN agent_actions : agent_actions[i] = act_respond(txt_1c000)
        /\ syntactic_info[c].r_actions
        /\ semantic_info[c].outputs[txt_SUCCESS]
        /\ result[c].reward = 0

\* ------------------------------------------------------------------------
\* Properties of the appointment tools
\* ------------------------------------------------------------------------
Appointments(data) == DictGet(data, PStr("appointments")).items

\* The agent's snapshot before and after its latest action.
AppointmentsThen == Appointments(heap[current_data])
AppointmentsNow == Appointments(heap[current_data])'

Cancelled(appt) ==
    [i \in DOMAIN appt.items |->
        IF appt.items[i].k = PStr("status")
        THEN KV(PStr("status"), PStr("cancelled")) ELSE appt.items[i]]

\* C26: from the loaded data, through any schedule and cancel calls, a
\* schedule call adds one appointment under an ID that was no key before
\* and leaves every other appointment as it was; a cancel call removes
\* nothing: it sets the status of the appointment of that ID to
\* "cancelled", or leaves the snapshot as it is when there is none.
C26_FreshIdsNoRemoval ==
    [][Len(agent_actions') = Len(agent_actions) + 1 =>
          LET action == agent_actions'[Len(agent_actions')] IN
          /\ action.name = "schedule_appointment" =>
               /\ Len(AppointmentsNow) = Len(AppointmentsThen) + 1
               /\ SubSeq(AppointmentsNow, 1, Len(AppointmentsThen))
                    = AppointmentsThen
               /\ \A i \in DOMAIN AppointmentsThen :
                      AppointmentsThen[i].k
                          # AppointmentsNow[Len(AppointmentsNow)].k
          /\ action.name = "cancel_appointment" =>
               /\ Keys(AppointmentsNow) = Keys(AppointmentsThen)
               /\ \A i \in DOMAIN AppointmentsThen :
                      IF AppointmentsThen[i].k = PStr(action.kwargs.appointment_id)
                      THEN AppointmentsNow[i].v.items
                               = Cancelled(AppointmentsThen[i].v)
                      ELSE AppointmentsNow[i] = AppointmentsThen[i]
               /\ (\A i \in DOMAIN AppointmentsThen :
                       AppointmentsThen[i].k # PStr(action.kwargs.appointment_id))
                    => heap' = heap]_vars

\* An appointment was scheduled after one was cancelled: three appointments,
\* the cancelled one among them, the new one under the ID APT003.
C26_Witness ==
    /\ agent_actions = <<act_cancel("APT001"), act_schedule>>
    /\ Keys(Appointments(heap[current_data]))
         = <<PStr("APT001"), PStr("APT002"), PStr("APT003")>>
    /\ DictGet(Appointments(heap[current_data])[1].v, PStr("status"))
         = PStr("cancelled")

\* ------------------------------------------------------------------------
\* Properties of task_validation.TaskValidator.validate_task
\* ------------------------------------------------------------------------
\* The task has an action whose name is no identifier or is a keyword.
HasBadName(t) ==
    \E i \in DOMAIN t.actions : t.actions[i].name \in {name_cancel_dash, name_pass}

\* C27: in validate_task of task_validation.TaskValidator the syntactic
\* validation comes first and gates the semantic one: for a task with a
\* syntactically invalid action no tool is invoked and the shared data stay
\* as they are, semantic.valid stays False and the task is reported
\* invalid; with skip_semantics no tool is invoked; and a tool is invoked
\* only once the syntactic validation has passed.
C27_SyntaxGatesSemantics ==
    /\ [](legacy_pc # "idle" /\ (HasBadName(task) \/ skip_semantics) =>
            /\ legacy_pc = "done"
            /\ invoked = <<>>
            /\ ~report.semantic.valid
            /\ HasBadName(task) =>
                 /\ ~report.syntactic.valid
                 /\ ~report.overall_valid
                 /\ report.ret = FALSE)
    /\ [][/\ legacy_pc = "idle" /\ legacy_pc' = "done" => heap' = heap
          /\ heap' # heap \/ Len(invoked') > Len(invoked) =>
               /\ legacy_pc = "semantic"
               /\ report.syntactic.valid
               /\ ~skip_semantics]_vars

\* A task was reported invalid for the name of one action; its other action
\* would have cancelled an appointment, which is still scheduled.
C27_Witness ==
    /\ legacy_pc = "done"
    /\ ~skip_semantics
    /\ task.actions = <<Action(name_cancel, [appointment_id |-> "APT001"]),
                        Action(name_cancel_dash, [appointment_id |-> "APT002"])>>
    /\ report.ret = FALSE
    /\ invoked = <<>>
    /\ heap[current_data] = load_data

\* ------------------------------------------------------------------------
\* Properties of the origins kept by the registry
\* ------------------------------------------------------------------------
\* The origin recorded for a name, None when there is none.
origin(name) == dict_get(domain_paths, name)

\* C30: after any sequence of register_domain calls every name with a
\* recorded origin is a registered name, and the origin recorded for a name
\* is the one supplied with the registration that produced the stored
\* descriptor: none, when that registration supplied none.
C30_OriginOfStoredDescriptor ==
    /\ \A name \in Names : origin(name) # None => get_domain(name) # None
    /\ \A call \in RegisterCalls :
           get_domain(call[1].name) = call[1] => origin(call[1].name) = call[2]

====
